---------------------------- MODULE Spec2Model ----------------------------
(***************************************************************************)
(* Model of the MinecraftStatusPlugin monitoring core (src/main.py):       *)
(* the bind table and monitor flags, the sqlite history store, the         *)
(* periodic poll tick monitor_all_servers and the admin commands that      *)
(* change the configuration.                                               *)
(*                                                                         *)
(* Python strings are sequences of one-character strings, dicts are        *)
(* functions whose DOMAIN is the set of keys, None is the empty tuple and  *)
(* an optional value v is the one-element tuple <<v>>.                     *)
(***************************************************************************)
EXTENDS Integers, Sequences, FiniteSets, TLC

\* ------------------------------------------------------------------ bounds
\* number of poll ticks the scheduler starts
MaxTicks == 1
\* number of admin commands issued
MaxCmds == 2

\* ---------------------------------------------------------- python values
None == <<>>
Some(x) == <<x>>
EmptyDict == [k \in {} |-> {}]

DictGet(d, k, default) == IF k \in DOMAIN d THEN d[k] ELSE default
DictSet(d, k, v) == [x \in (DOMAIN d) \cup {k} |-> IF x = k THEN v ELSE d[x]]
DictDel(d, k) == [x \in (DOMAIN d) \ {k} |-> d[x]]
\* truth value of a dict or None: empty and None are falsy
Truthy(d) == DOMAIN d # {}

\* ------------------------------------------------- parse_server_address
DEFAULT_PORT == 25565

DigitChars == <<"0", "1", "2", "3", "4", "5", "6", "7", "8", "9">>
IsDigit(c) == \E i \in 1..10 : DigitChars[i] = c
DigitVal(c) == (CHOOSE i \in 1..10 : DigitChars[i] = c) - 1

RECURSIVE DigitsValue(_)
DigitsValue(s) ==
    IF s = <<>> THEN 0
    ELSE 10 * DigitsValue(SubSeq(s, 1, Len(s) - 1)) + DigitVal(s[Len(s)])

\* int(text) on text made of an optional sign and decimal digits; anything
\* else raises ValueError (ok = FALSE)
PyInt(s) ==
    LET signed == Len(s) > 0 /\ s[1] \in {"-", "+"}
        body == IF signed THEN SubSeq(s, 2, Len(s)) ELSE s
    IN  IF body # <<>> /\ \A i \in 1..Len(body) : IsDigit(body[i])
        THEN [ok |-> TRUE,
              val |-> IF signed /\ s[1] = "-" THEN 0 - DigitsValue(body)
                      ELSE DigitsValue(body)]
        ELSE [ok |-> FALSE, val |-> 0]

ColonPositions(s) == {i \in 1..Len(s) : s[i] = ":"}

ValueError == [ok |-> FALSE, ip |-> <<>>, port |-> 0]

\* parse_server_address leaving the ':' at the end of the host
parse_server_address_keep_colon(address) ==
    IF ColonPositions(address) # {}
    THEN IF Cardinality(ColonPositions(address)) = 1
         THEN LET p == CHOOSE i \in ColonPositions(address) : TRUE
                  n == PyInt(SubSeq(address, p + 1, Len(address)))
              IN  IF n.ok
                  THEN [ok |-> TRUE, ip |-> SubSeq(address, 1, p), port |-> n.val]
                  ELSE ValueError
         ELSE ValueError
    ELSE [ok |-> TRUE, ip |-> address, port |-> DEFAULT_PORT]

\* ip, port = address.split(":") unpacks only when there is exactly one ':'
parse_server_address(address) ==
    IF ColonPositions(address) # {}
    THEN IF Cardinality(ColonPositions(address)) = 1
         THEN LET p == CHOOSE i \in ColonPositions(address) : TRUE
                  n == PyInt(SubSeq(address, p + 1, Len(address)))
              IN  IF n.ok
                  THEN [ok |-> TRUE, ip |-> SubSeq(address, 1, p - 1), port |-> n.val]
                  ELSE ValueError
         ELSE ValueError
    ELSE [ok |-> TRUE, ip |-> address, port |-> DEFAULT_PORT]

\* ------------------------------------------------- validate_server_name
LowerChars == {"a", "b", "c", "d", "e", "f", "g", "h", "i", "j", "k", "l", "m",
               "n", "o", "p", "q", "r", "s", "t", "u", "v", "w", "x", "y", "z"}
UpperChars == {"A", "B", "C", "D", "E", "F", "G", "H", "I", "J", "K", "L", "M",
               "N", "O", "P", "Q", "R", "S", "T", "U", "V", "W", "X", "Y", "Z"}
NameClass == LowerChars \cup UpperChars \cup {DigitChars[i] : i \in 1..10} \cup {"_", "-"}

\* re.match(r'^[a-zA-Z0-9_-]+$', name): '$' matches at the end of the string
\* and also just before a newline that ends the string
validate_server_name(name) ==
    LET body == IF Len(name) > 0 /\ name[Len(name)] = "\n"
                THEN SubSeq(name, 1, Len(name) - 1) ELSE name
    IN  body # <<>> /\ \A i \in 1..Len(body) : body[i] \in NameClass

\* ------------------------------------------------------------ the inputs
Groups == {1, 2}
NameInputs == {<<"s">>, <<"b", "!">>}
AddrA == <<"a">>
AddrAPort == <<"a", ":", "2", "5", "5", "6", "5">>
AddrB == <<"b", ":", "8">>
AddrBad == <<"b", ":", "x">>
AddrC == <<"c">>
AddrInputs == {AddrA, AddrAPort, AddrB, AddrBad}

\* self.data as loaded from the persisted plugin data by on_load: a fresh
\* install, or a data file in which group 1 and group 2 bind the same server
\* under two spellings, group 2 also binds a second server and (edited by
\* hand) a malformed address, all four flagged for monitoring, and group 1
\* binds a server for which monitoring was never set
PersistedData ==
    { [bind_servers |-> EmptyDict, monitor_servers |-> EmptyDict],
      [bind_servers |-> (1 :> ((<<"s">> :> AddrA) @@ (<<"v">> :> AddrC))) @@
                        (2 :> ((<<"s">> :> AddrAPort) @@ (<<"t">> :> AddrB)
                               @@ (<<"u">> :> AddrBad))),
       monitor_servers |-> (AddrA :> TRUE) @@ (AddrAPort :> TRUE)
                           @@ (AddrB :> TRUE) @@ (AddrBad :> TRUE)] }

\* the documents mcping.status can hand back, one per branch of
\* save_server_status, and the exceptions it can raise (by their str())
DocFull == [players |-> [online |-> 2, max |-> 20], version |-> "1.20"]
DocNoOnline == [players |-> [max |-> 20], version |-> "1.20"]
DocNoPlayers == [version |-> "1.20"]
DocEmpty == EmptyDict
StatusDocs == {DocFull, DocNoOnline, DocNoPlayers, DocEmpty}
ProbeErrors == {"timeout", "invalid response", "connection refused"}
ProbeOutcomes ==
    {[raises |-> FALSE, doc |-> d, msg |-> ""] : d \in StatusDocs}
    \cup {[raises |-> TRUE, doc |-> EmptyDict, msg |-> m] : m \in ProbeErrors}

\* wall-clock time a probe takes, in clock units (seconds)
Durations == {1, 2}
MsPerSecond == 1000

\* what the database does during one store operation: does the first step of
\* ensure_connection succeed, does its reconnect succeed, does the statement
\* execute, and the same two questions for the ensure_connection of the
\* except branch
StoreEnvs ==
    { [alive |-> TRUE,  up |-> TRUE,  exec_ok |-> TRUE,  alive2 |-> TRUE,  up2 |-> TRUE],
      [alive |-> FALSE, up |-> TRUE,  exec_ok |-> TRUE,  alive2 |-> TRUE,  up2 |-> TRUE],
      [alive |-> TRUE,  up |-> TRUE,  exec_ok |-> FALSE, alive2 |-> TRUE,  up2 |-> TRUE],
      [alive |-> FALSE, up |-> FALSE, exec_ok |-> FALSE, alive2 |-> FALSE, up2 |-> FALSE],
      [alive |-> FALSE, up |-> FALSE, exec_ok |-> FALSE, alive2 |-> FALSE, up2 |-> TRUE] }

VARIABLES
    bind_servers,       \* self.data['data']['bind_servers']: group -> name -> address
    monitor_servers,    \* self.data['data']['monitor_servers']: address -> bool
    history,            \* rows of server_status_history, in insertion order
    sqlite_conn,        \* self.sqlite_conn: "open" or "none"
    now,                \* the wall clock read by datetime.datetime.now()
    pc,                 \* monitor_all_servers: "idle" or "loop"
    unique_servers,     \* the (ip, port) pairs the running tick has still to probe
    ticks,              \* ticks started so far
    ncmds,              \* admin commands handled so far
    \* history variables of the tick in progress (or the last one finished)
    tick_set,           \* unique_servers as collected when the tick started
    probed,             \* (ip, port) -> number of get_server_status calls
    recorded,           \* (ip, port) -> number of rows inserted
    probe_failed,       \* pairs whose probe raised
    write_failed,       \* pairs whose insert the database refused
    aborted,            \* the outer except of monitor_all_servers was entered
    raised,             \* an exception left monitor_all_servers
    last,               \* the last loop iteration: pair, outcome, clock before and
                        \* after the probe, whether a row was inserted
    bind0,              \* bind_servers as it was when the tick started
    mon0,               \* monitor_servers as it was when the tick started
    reply,              \* what the last command handler answered: the command,
                        \* the branch it returned from and the values it showed
    purge               \* handle_monitor_purge_command between its awaits:
                        \* position, days, the statistics read so far

config == <<bind_servers, monitor_servers>>
store == <<history, sqlite_conn>>
tick == <<pc, unique_servers, ticks, tick_set, probed, recorded, probe_failed,
          write_failed, aborted, raised, last, bind0, mon0>>
cmd == <<reply, purge>>
vars == <<bind_servers, monitor_servers, history, sqlite_conn, now, pc,
          unique_servers, ticks, ncmds, tick_set, probed, recorded,
          probe_failed, write_failed, aborted, raised, last, bind0, mon0,
          reply, purge>>

\* a reply: the handler, the branch it returned from, the values it showed
Reply(c, verdict, data) == [cmd |-> c, verdict |-> verdict, data |-> data]
NoReply == Reply("none", "none", None)
\* no purge command is between two of its awaits
\* (t0 remembers the clock at the statistics read before; h0, at and failed
\* the table and the clock cleanup_old_data started from and whether the
\* database refused it)
PurgeIdle ==
    [pc |-> "idle", days |-> 0, before |-> EmptyDict, deleted |-> 0,
     h0 |-> <<>>, at |-> 0, failed |-> FALSE,
     t0 |-> 0]

Init ==
    /\ \E d \in PersistedData :
          /\ bind_servers = d.bind_servers
          /\ monitor_servers = d.monitor_servers
    /\ history = <<>>
    /\ sqlite_conn = "open"
    /\ now = 0
    /\ pc = "idle"
    /\ unique_servers = {}
    /\ ticks = 0
    /\ ncmds = 0
    /\ tick_set = {}
    /\ probed = EmptyDict
    /\ recorded = EmptyDict
    /\ probe_failed = {}
    /\ write_failed = {}
    /\ aborted = FALSE
    /\ raised = FALSE
    /\ last = None
    /\ bind0 = EmptyDict
    /\ mon0 = EmptyDict
    /\ reply = NoReply
    /\ purge = PurgeIdle

\* ------------------------------------------------------ admin commands
\* AddBinding assigning the address without looking for the name first
AddBinding_overwrite(bind, g, name, address) ==
    IF ~validate_server_name(name) THEN bind
    ELSE IF ~parse_server_address(address).ok THEN bind
    ELSE LET b1 == IF g \notin DOMAIN bind THEN DictSet(bind, g, EmptyDict) ELSE bind
         IN  DictSet(b1, g, DictSet(b1[g], name, address))

AddBinding(bind, g, name, address) ==
    IF ~validate_server_name(name) THEN bind
    ELSE IF ~parse_server_address(address).ok THEN bind
    ELSE LET b1 == IF g \notin DOMAIN bind THEN DictSet(bind, g, EmptyDict) ELSE bind
         IN  IF name \in DOMAIN b1[g] THEN b1
             ELSE DictSet(b1, g, DictSet(b1[g], name, address))

\* the branch handle_add_command returns from
AddVerdict(bind, g, name, address) ==
    IF ~validate_server_name(name) THEN "invalid name"
    ELSE IF ~parse_server_address(address).ok THEN "invalid address"
    ELSE IF g \in DOMAIN bind /\ name \in DOMAIN bind[g] THEN "exists"
    ELSE "added"

handle_add_command(g, name, address) ==
    /\ ncmds < MaxCmds
    /\ bind_servers' = AddBinding(bind_servers, g, name, address)
    /\ reply' = Reply("add", AddVerdict(bind_servers, g, name, address), None)
    /\ ncmds' = ncmds + 1
    /\ UNCHANGED <<monitor_servers, store, now, tick, purge>>

DeleteBinding(bind, g, name) ==
    IF g \notin DOMAIN bind THEN bind
    ELSE IF name \in DOMAIN bind[g] THEN DictSet(bind, g, DictDel(bind[g], name))
    ELSE bind

\* the branch handle_delete_command returns from
DeleteVerdict(bind, g, name) ==
    IF g \notin DOMAIN bind THEN "no group"
    ELSE IF name \in DOMAIN bind[g] THEN "deleted"
    ELSE "no binding"

\* handle_delete_command taking the monitor flag of the deleted binding's
\* address away as well
handle_delete_command_unflag(g, name) ==
    /\ ncmds < MaxCmds
    /\ bind_servers' = DeleteBinding(bind_servers, g, name)
    /\ monitor_servers' =
          IF DeleteVerdict(bind_servers, g, name) = "deleted"
          THEN [a \in DOMAIN monitor_servers \ {bind_servers[g][name]} |->
                   monitor_servers[a]]
          ELSE monitor_servers
    /\ reply' = Reply("delete", DeleteVerdict(bind_servers, g, name), None)
    /\ ncmds' = ncmds + 1
    /\ UNCHANGED <<store, now, tick, purge>>

handle_delete_command(g, name) ==
    /\ ncmds < MaxCmds
    /\ bind_servers' = DeleteBinding(bind_servers, g, name)
    /\ reply' = Reply("delete", DeleteVerdict(bind_servers, g, name), None)
    /\ ncmds' = ncmds + 1
    /\ UNCHANGED <<monitor_servers, store, now, tick, purge>>

\* SetMonitor writing the flag of every flagged spelling of the same
\* (host, port) as well
SetMonitor_pair(bind, mon, g, name, is_monitoring) ==
    IF g \notin DOMAIN bind \/ name \notin DOMAIN bind[g] THEN mon
    ELSE LET server_address == bind[g][name]
             same == {x \in DOMAIN mon :
                         parse_server_address(x) = parse_server_address(server_address)}
         IN  IF server_address \notin DOMAIN mon /\ ~is_monitoring THEN mon
             ELSE [x \in DOMAIN mon \cup {server_address} |->
                      IF x = server_address \/ x \in same THEN is_monitoring
                      ELSE mon[x]]

\* is_monitoring is TRUE for on/true, FALSE for off/false
SetMonitor(bind, mon, g, name, is_monitoring) ==
    IF g \notin DOMAIN bind \/ name \notin DOMAIN bind[g] THEN mon
    ELSE LET server_address == bind[g][name]
         IN  IF server_address \notin DOMAIN mon /\ ~is_monitoring THEN mon
             ELSE DictSet(mon, server_address, is_monitoring)

\* the branch handle_monitor_set_command returns from; "silent" is the
\* return without a reply
SetVerdict(bind, mon, g, name, is_monitoring) ==
    IF g \notin DOMAIN bind \/ name \notin DOMAIN bind[g] THEN "not bound"
    ELSE IF bind[g][name] \notin DOMAIN mon /\ ~is_monitoring THEN "silent"
    ELSE IF is_monitoring THEN "enabled" ELSE "disabled"

handle_monitor_set_command(g, name, is_monitoring) ==
    /\ ncmds < MaxCmds
    /\ monitor_servers' = SetMonitor(bind_servers, monitor_servers, g, name, is_monitoring)
    /\ reply' = Reply("set", SetVerdict(bind_servers, monitor_servers, g, name,
                                        is_monitoring), None)
    /\ ncmds' = ncmds + 1
    /\ UNCHANGED <<bind_servers, store, now, tick, purge>>

\* ------------------------------------------------------ history store
\* self.sqlite_conn after ensure_connection, and whether it raised. The try
\* block creates a missing connection or tests the open one with SELECT 1
\* (alive: that first step succeeds); on sqlite3.Error the except branch
\* closes what there is and calls init_database_connection (up: it succeeds),
\* which leaves None and raises when the database cannot be opened
ensure_connection(conn, alive, up) ==
    IF alive THEN [conn |-> "open", raised |-> FALSE]
    ELSE IF up THEN [conn |-> "open", raised |-> FALSE]
         ELSE [conn |-> "none", raised |-> TRUE]

\* the database refuses the INSERT of this operation
StoreRefuses(conn, env) ==
    ensure_connection(conn, env.alive, env.up).raised \/ ~env.exec_ok

\* the except branch of every store operation: log, then ensure_connection
\* inside a bare try/except
ReconnectQuietly(conn, env) == ensure_connection(conn, env.alive2, env.up2).conn

Row(t, ip, port, online_players, response_time, status, error_message) ==
    [timestamp |-> t, server_ip |-> ip, server_port |-> port,
     online_players |-> online_players, response_time |-> response_time,
     status |-> status, error_message |-> error_message]

\* save_server_status reading the player count from the 'max' key
save_server_status_max(h, conn, t, ip, port, status, response_time, error_message, env) ==
    LET e1 == ensure_connection(conn, env.alive, env.up)
        players == IF Truthy(status) THEN DictGet(status, "players", EmptyDict)
                   ELSE EmptyDict
        online_players == IF Truthy(players) THEN Some(DictGet(players, "max", 0))
                          ELSE None
        row == Row(t, ip, port, online_players, response_time,
                   IF Truthy(status) THEN "online" ELSE "offline", error_message)
    IN  IF e1.raised \/ ~env.exec_ok
        THEN [history |-> h, conn |-> ReconnectQuietly(e1.conn, env), raised |-> FALSE]
        ELSE [history |-> Append(h, row), conn |-> e1.conn, raised |-> FALSE]

\* save_server_status letting the store error out of its except branch
save_server_status_reraise(h, conn, t, ip, port, status, response_time, error_message, env) ==
    LET e1 == ensure_connection(conn, env.alive, env.up)
        players == IF Truthy(status) THEN DictGet(status, "players", EmptyDict)
                   ELSE EmptyDict
        online_players == IF Truthy(players) THEN Some(DictGet(players, "online", 0))
                          ELSE None
        row == Row(t, ip, port, online_players, response_time,
                   IF Truthy(status) THEN "online" ELSE "offline", error_message)
    IN  IF e1.raised \/ ~env.exec_ok
        THEN [history |-> h, conn |-> ReconnectQuietly(e1.conn, env), raised |-> TRUE]
        ELSE [history |-> Append(h, row), conn |-> e1.conn, raised |-> FALSE]

save_server_status(h, conn, t, ip, port, status, response_time, error_message, env) ==
    LET e1 == ensure_connection(conn, env.alive, env.up)
        players == IF Truthy(status) THEN DictGet(status, "players", EmptyDict)
                   ELSE EmptyDict
        online_players == IF Truthy(players) THEN Some(DictGet(players, "online", 0))
                          ELSE None
        row == Row(t, ip, port, online_players, response_time,
                   IF Truthy(status) THEN "online" ELSE "offline", error_message)
    IN  IF e1.raised \/ ~env.exec_ok
        THEN [history |-> h, conn |-> ReconnectQuietly(e1.conn, env), raised |-> FALSE]
        ELSE [history |-> Append(h, row), conn |-> e1.conn, raised |-> FALSE]

\* save_server_offline_status letting the store error out of its except branch
save_server_offline_status_reraise(h, conn, t, ip, port, response_time, error_message, env) ==
    LET e1 == ensure_connection(conn, env.alive, env.up)
        row == Row(t, ip, port, None, response_time, "offline", error_message)
    IN  IF e1.raised \/ ~env.exec_ok
        THEN [history |-> h, conn |-> ReconnectQuietly(e1.conn, env), raised |-> TRUE]
        ELSE [history |-> Append(h, row), conn |-> e1.conn, raised |-> FALSE]

\* save_server_offline_status inserting without the error_message
save_server_offline_status_noerr(h, conn, t, ip, port, response_time, error_message, env) ==
    LET e1 == ensure_connection(conn, env.alive, env.up)
        row == Row(t, ip, port, None, response_time, "offline", None)
    IN  IF e1.raised \/ ~env.exec_ok
        THEN [history |-> h, conn |-> ReconnectQuietly(e1.conn, env), raised |-> FALSE]
        ELSE [history |-> Append(h, row), conn |-> e1.conn, raised |-> FALSE]

\* save_server_offline_status leaving the status column to its DEFAULT 'online'
save_server_offline_status_default(h, conn, t, ip, port, response_time, error_message, env) ==
    LET e1 == ensure_connection(conn, env.alive, env.up)
        row == Row(t, ip, port, None, response_time, "online", error_message)
    IN  IF e1.raised \/ ~env.exec_ok
        THEN [history |-> h, conn |-> ReconnectQuietly(e1.conn, env), raised |-> FALSE]
        ELSE [history |-> Append(h, row), conn |-> e1.conn, raised |-> FALSE]

save_server_offline_status(h, conn, t, ip, port, response_time, error_message, env) ==
    LET e1 == ensure_connection(conn, env.alive, env.up)
        row == Row(t, ip, port, None, response_time, "offline", error_message)
    IN  IF e1.raised \/ ~env.exec_ok
        THEN [history |-> h, conn |-> ReconnectQuietly(e1.conn, env), raised |-> FALSE]
        ELSE [history |-> Append(h, row), conn |-> e1.conn, raised |-> FALSE]

\* --------------------------------------------------- reading the store
\* datetime.timedelta(hours=h) and timedelta(days=d) in clock units (seconds)
SecondsPerHour == 3600
SecondsPerDay == 86400

\* the dict get_server_history builds from a selected row
HistoryEntry(row) ==
    [timestamp |-> row.timestamp,
     online_players |-> row.online_players,
     is_online |-> row.online_players # None /\ row.status = "online",
     response_time |-> row.response_time,
     status |-> row.status,
     error_message |-> row.error_message]

\* WHERE server_ip = ? AND server_port = ? AND timestamp >= ?
\* ORDER BY timestamp ASC
SelectHistory(h, ip, port, time_limit) ==
    SortSeq(SelectSeq(h, LAMBDA r : /\ r.server_ip = ip
                                    /\ r.server_port = port
                                    /\ r.timestamp >= time_limit),
            LAMBDA x, y : x.timestamp < y.timestamp)

\* get_server_history without the ORDER BY: rows come in insertion order
get_server_history_unordered(h, conn, t, ip, port, hours, env) ==
    LET e1 == ensure_connection(conn, env.alive, env.up)
        time_limit == t - hours * SecondsPerHour
        rows == SelectSeq(h, LAMBDA r : /\ r.server_ip = ip
                                        /\ r.server_port = port
                                        /\ r.timestamp >= time_limit)
    IN  IF e1.raised \/ ~env.exec_ok
        THEN [rows |-> <<>>, conn |-> ReconnectQuietly(e1.conn, env), raised |-> FALSE]
        ELSE [rows |-> [i \in 1..Len(rows) |-> HistoryEntry(rows[i])],
              conn |-> e1.conn, raised |-> FALSE]

\* get_server_history running the SELECT again after its except branch has
\* brought the connection back
get_server_history_retry(h, conn, t, ip, port, hours, env) ==
    LET e1 == ensure_connection(conn, env.alive, env.up)
        e2 == ensure_connection(e1.conn, env.alive2, env.up2)
        time_limit == t - hours * SecondsPerHour
        rows == SelectHistory(h, ip, port, time_limit)
        found == [rows |-> [i \in 1..Len(rows) |-> HistoryEntry(rows[i])],
                  conn |-> "open", raised |-> FALSE]
    IN  IF e1.raised \/ ~env.exec_ok
        THEN IF ~e2.raised /\ env.exec_ok THEN found
             ELSE [rows |-> <<>>, conn |-> e2.conn, raised |-> FALSE]
        ELSE found

\* the list get_server_history returns, self.sqlite_conn afterwards, and
\* whether an exception left it: every exception ends in `return []`
get_server_history(h, conn, t, ip, port, hours, env) ==
    LET e1 == ensure_connection(conn, env.alive, env.up)
        time_limit == t - hours * SecondsPerHour
        rows == SelectHistory(h, ip, port, time_limit)
    IN  IF e1.raised \/ ~env.exec_ok
        THEN [rows |-> <<>>, conn |-> ReconnectQuietly(e1.conn, env), raised |-> FALSE]
        ELSE [rows |-> [i \in 1..Len(rows) |-> HistoryEntry(rows[i])],
              conn |-> e1.conn, raised |-> FALSE]

\* cleanup_old_data deleting the rows at the cutoff too
cleanup_old_data_inclusive(h, conn, t, days, env) ==
    LET e1 == ensure_connection(conn, env.alive, env.up)
        cutoff_date == t - days * SecondsPerDay
        kept == SelectSeq(h, LAMBDA r : ~(r.timestamp <= cutoff_date))
    IN  IF e1.raised \/ ~env.exec_ok
        THEN [history |-> h, conn |-> ReconnectQuietly(e1.conn, env), deleted |-> 0]
        ELSE [history |-> kept, conn |-> e1.conn, deleted |-> Len(h) - Len(kept)]

\* cleanup_old_data stamping the rows it keeps instead of leaving them alone
cleanup_old_data_touch(h, conn, t, days, env) ==
    LET e1 == ensure_connection(conn, env.alive, env.up)
        cutoff_date == t - days * SecondsPerDay
        kept == SelectSeq(h, LAMBDA r : ~(r.timestamp < cutoff_date))
    IN  IF e1.raised \/ ~env.exec_ok
        THEN [history |-> h, conn |-> ReconnectQuietly(e1.conn, env), deleted |-> 0]
        ELSE [history |-> [i \in 1..Len(kept) |-> [kept[i] EXCEPT !.timestamp = t]],
              conn |-> e1.conn, deleted |-> Len(h) - Len(kept)]

\* the table after cleanup_old_data, self.sqlite_conn, and the count it
\* returns: COUNT(*) of the rows before the cutoff, 0 when there is none,
\* else DELETE and its rowcount; every exception ends in `return 0`
cleanup_old_data(h, conn, t, days, env) ==
    LET e1 == ensure_connection(conn, env.alive, env.up)
        cutoff_date == t - days * SecondsPerDay
        count_to_delete == Len(SelectSeq(h, LAMBDA r : r.timestamp < cutoff_date))
        kept == SelectSeq(h, LAMBDA r : ~(r.timestamp < cutoff_date))
    IN  IF e1.raised \/ ~env.exec_ok
        THEN [history |-> h, conn |-> ReconnectQuietly(e1.conn, env), deleted |-> 0]
        ELSE IF count_to_delete = 0
             THEN [history |-> h, conn |-> e1.conn, deleted |-> 0]
             ELSE [history |-> kept, conn |-> e1.conn, deleted |-> Len(h) - Len(kept)]

\* MIN(timestamp) and MAX(timestamp): NULL on an empty table
MinTimestamp(h) ==
    IF h = <<>> THEN None
    ELSE Some(CHOOSE t \in {h[i].timestamp : i \in 1..Len(h)} :
                 \A i \in 1..Len(h) : t <= h[i].timestamp)
MaxTimestamp(h) ==
    IF h = <<>> THEN None
    ELSE Some(CHOOSE t \in {h[i].timestamp : i \in 1..Len(h)} :
                 \A i \in 1..Len(h) : t >= h[i].timestamp)

\* the dict get_database_stats returns (the file-size entries left out) and
\* self.sqlite_conn afterwards; its except branch returns {} and does not
\* call ensure_connection again
get_database_stats(h, conn, env) ==
    LET e1 == ensure_connection(conn, env.alive, env.up)
    IN  IF e1.raised \/ ~env.exec_ok
        THEN [stats |-> EmptyDict, conn |-> e1.conn]
        ELSE [stats |-> [total_records |-> Len(h),
                         earliest_record |-> MinTimestamp(h),
                         latest_record |-> MaxTimestamp(h)],
              conn |-> e1.conn]

\* ------------------------------------------------ handle_stats_command
RECURSIVE SumSeq(_)
SumSeq(l) == IF l = <<>> THEN 0 ELSE Head(l) + SumSeq(Tail(l))
MaxSeq(l) == CHOOSE x \in {l[i] : i \in 1..Len(l)} : \A i \in 1..Len(l) : x >= l[i]
MinSeq(l) == CHOOSE x \in {l[i] : i \in 1..Len(l)} : \A i \in 1..Len(l) : x <= l[i]
\* the quotient n / d of Python's true division, kept as the fraction
Ratio(n, d) == [num |-> n, den |-> d]
Zero == Ratio(0, 1)

\* Statistics taking the response times of the online records only
Statistics_online_times(hist) ==
    LET total_records == Len(hist)
        online_records == Len(SelectSeq(hist, LAMBDA h : h.is_online))
        online_rows == SelectSeq(hist, LAMBDA h : h.is_online /\ h.online_players # None)
        online_players_list == [i \in 1..Len(online_rows) |-> online_rows[i].online_players[1]]
        timed_rows == SelectSeq(hist, LAMBDA h : h.is_online /\ h.response_time # None)
        response_times == [i \in 1..Len(timed_rows) |-> timed_rows[i].response_time[1]]
    IN  [total_records |-> total_records,
         online_records |-> online_records,
         offline_records |-> total_records - online_records,
         uptime_rate |-> IF total_records > 0
                         THEN Ratio(online_records * 100, total_records) ELSE Zero,
         avg_players |-> IF online_players_list # <<>>
                         THEN Ratio(SumSeq(online_players_list), Len(online_players_list))
                         ELSE Zero,
         max_players_ever |-> IF online_players_list # <<>>
                              THEN MaxSeq(online_players_list) ELSE 0,
         min_players_ever |-> IF online_players_list # <<>>
                              THEN MinSeq(online_players_list) ELSE 0,
         avg_response |-> IF response_times # <<>>
                          THEN Ratio(SumSeq(response_times), Len(response_times))
                          ELSE Zero,
         max_response |-> IF response_times # <<>> THEN MaxSeq(response_times) ELSE 0,
         min_response |-> IF response_times # <<>> THEN MinSeq(response_times) ELSE 0]

\* the figures handle_stats_command computes from a history list
Statistics(hist) ==
    LET total_records == Len(hist)
        online_records == Len(SelectSeq(hist, LAMBDA h : h.is_online))
        online_rows == SelectSeq(hist, LAMBDA h : h.is_online /\ h.online_players # None)
        online_players_list == [i \in 1..Len(online_rows) |-> online_rows[i].online_players[1]]
        timed_rows == SelectSeq(hist, LAMBDA h : h.response_time # None)
        response_times == [i \in 1..Len(timed_rows) |-> timed_rows[i].response_time[1]]
    IN  [total_records |-> total_records,
         online_records |-> online_records,
         offline_records |-> total_records - online_records,
         uptime_rate |-> IF total_records > 0
                         THEN Ratio(online_records * 100, total_records) ELSE Zero,
         avg_players |-> IF online_players_list # <<>>
                         THEN Ratio(SumSeq(online_players_list), Len(online_players_list))
                         ELSE Zero,
         max_players_ever |-> IF online_players_list # <<>>
                              THEN MaxSeq(online_players_list) ELSE 0,
         min_players_ever |-> IF online_players_list # <<>>
                              THEN MinSeq(online_players_list) ELSE 0,
         avg_response |-> IF response_times # <<>>
                          THEN Ratio(SumSeq(response_times), Len(response_times))
                          ELSE Zero,
         max_response |-> IF response_times # <<>> THEN MaxSeq(response_times) ELSE 0,
         min_response |-> IF response_times # <<>> THEN MinSeq(response_times) ELSE 0]

\* what a /mcstats reply is about: the table and the query, what the database did, the
\* list get_server_history returned and the figures shown
StatsData(h, ip, port, hours, t, conn, env, rows) ==
    [table |-> h, ip |-> ip, port |-> port, hours |-> hours, at |-> t,
     failed |-> StoreRefuses(conn, env), env |-> env, rows |-> rows,
     stats |-> IF rows = <<>> THEN EmptyDict ELSE Statistics(rows)]

\* handle_stats_command querying the history before it looks at the binding
\* and its flag
handle_stats_command_read_first(g, name, hours, env) ==
    /\ ncmds < MaxCmds
    /\ ncmds' = ncmds + 1
    /\ IF g \notin DOMAIN bind_servers \/ name \notin DOMAIN bind_servers[g]
       THEN reply' = Reply("stats", "not bound", None) /\ UNCHANGED sqlite_conn
       ELSE LET server_address == bind_servers[g][name]
                p == parse_server_address(server_address)
                r == get_server_history(history, sqlite_conn, now, p.ip, p.port,
                                        hours, env)
            IN  IF ~DictGet(monitor_servers, server_address, FALSE)
                THEN reply' = Reply("stats", "not monitored", None)
                     /\ sqlite_conn' = r.conn
                ELSE IF ~p.ok
                THEN reply' = Reply("stats", "invalid address", None)
                     /\ UNCHANGED sqlite_conn
                ELSE /\ sqlite_conn' = r.conn
                     /\ reply' = Reply("stats",
                                       IF r.rows = <<>> THEN "no history" ELSE "stats",
                                       StatsData(history, p.ip, p.port, hours, now, sqlite_conn,
                                                 env, r.rows))
    /\ UNCHANGED <<config, history, now, tick, purge>>

\* /mcstats <name> <hours> sent in group g
handle_stats_command(g, name, hours, env) ==
    /\ ncmds < MaxCmds
    /\ ncmds' = ncmds + 1
    /\ IF g \notin DOMAIN bind_servers \/ name \notin DOMAIN bind_servers[g]
       THEN reply' = Reply("stats", "not bound", None) /\ UNCHANGED sqlite_conn
       ELSE LET server_address == bind_servers[g][name]
                p == parse_server_address(server_address)
                r == get_server_history(history, sqlite_conn, now, p.ip, p.port,
                                        hours, env)
            IN  IF ~DictGet(monitor_servers, server_address, FALSE)
                THEN reply' = Reply("stats", "not monitored", None)
                     /\ UNCHANGED sqlite_conn
                ELSE IF ~p.ok
                THEN reply' = Reply("stats", "invalid address", None)
                     /\ UNCHANGED sqlite_conn
                ELSE /\ sqlite_conn' = r.conn
                     /\ reply' = Reply("stats",
                                       IF r.rows = <<>> THEN "no history" ELSE "stats",
                                       StatsData(history, p.ip, p.port, hours, now, sqlite_conn,
                                                 env, r.rows))
    /\ UNCHANGED <<config, history, now, tick, purge>>

\* -------------------------------------------------- generate_status_chart
\* what matplotlib does with a non-empty history: everything up to
\* tight_layout ("plot"), then savefig writing the image file ("save")
RenderOutcomes == {"ok", "plot fails", "save fails"}

\* self._data_path.parent + "/charts/" + f"{server_name}_{ip}_{port}_status.png"
ChartPath(server_name, ip, port) ==
    [dir |-> "charts", server_name |-> server_name, ip |-> ip, port |-> port]

\* generate_status_chart returning the path although savefig raised
generate_status_chart_path_first(h, conn, t, server_name, ip, port, hours, env, render) ==
    LET r == get_server_history(h, conn, t, ip, port, hours, env)
    IN  IF r.rows = <<>>
        THEN [path |-> None, written |-> FALSE, conn |-> r.conn, raised |-> FALSE]
        ELSE IF render = "plot fails"
        THEN [path |-> None, written |-> FALSE, conn |-> r.conn, raised |-> FALSE]
        ELSE [path |-> Some(ChartPath(server_name, ip, port)),
              written |-> render = "ok", conn |-> r.conn, raised |-> FALSE]

\* the value generate_status_chart returns, whether savefig completed,
\* self.sqlite_conn afterwards, and whether an exception left it: the whole
\* body sits in try / except Exception: return None
generate_status_chart(h, conn, t, server_name, ip, port, hours, env, render) ==
    LET r == get_server_history(h, conn, t, ip, port, hours, env)
    IN  IF r.rows = <<>>
        THEN [path |-> None, written |-> FALSE, conn |-> r.conn, raised |-> FALSE]
        ELSE IF render # "ok"
        THEN [path |-> None, written |-> FALSE, conn |-> r.conn, raised |-> FALSE]
        ELSE [path |-> Some(ChartPath(server_name, ip, port)),
              written |-> TRUE, conn |-> r.conn, raised |-> FALSE]

\* what a /mcchart reply is about: the table and the query, what the
\* database and matplotlib did, and what generate_status_chart gave back
ChartData(h, ip, port, hours, t, conn, env, render, c) ==
    [table |-> h, ip |-> ip, port |-> port, hours |-> hours, at |-> t,
     failed |-> StoreRefuses(conn, env), render |-> render,
     path |-> c.path, written |-> c.written, raised |-> c.raised]

\* /mcchart <name> <hours> sent in group g
handle_chart_command(g, name, hours, env, render) ==
    /\ ncmds < MaxCmds
    /\ ncmds' = ncmds + 1
    /\ IF g \notin DOMAIN bind_servers \/ name \notin DOMAIN bind_servers[g]
       THEN reply' = Reply("chart", "not bound", None) /\ UNCHANGED sqlite_conn
       ELSE LET server_address == bind_servers[g][name]
                p == parse_server_address(server_address)
                c == generate_status_chart(history, sqlite_conn, now, name, p.ip,
                                           p.port, hours, env, render)
            IN  IF ~DictGet(monitor_servers, server_address, FALSE)
                THEN reply' = Reply("chart", "not monitored",
                                       [group |-> g, server_name |-> name])
                     /\ UNCHANGED sqlite_conn
                ELSE IF ~p.ok
                THEN reply' = Reply("chart", "invalid address", None)
                     /\ UNCHANGED sqlite_conn
                ELSE /\ sqlite_conn' = c.conn
                     /\ reply' = Reply("chart",
                                       IF c.path # None THEN "image" ELSE "no chart",
                                       ChartData(history, p.ip, p.port, hours, now,
                                                 sqlite_conn, env, render, c))
    /\ UNCHANGED <<config, history, now, tick, purge>>

\* ---------------------------------------------------- query_single_server
\* what mcping.status answers to an interactive query: a document whose
\* 'players' and 'version' are objects (shaped), a document in which one of
\* them is not, so that the .get calls of format_server_status raise, or one
\* of the exceptions
StatusOutcomes ==
    {[raises |-> FALSE, doc |-> DocFull, msg |-> "", shaped |-> TRUE],
     [raises |-> FALSE, doc |-> DocNoPlayers, msg |-> "", shaped |-> FALSE]}
    \cup {[raises |-> TRUE, doc |-> EmptyDict, msg |-> m, shaped |-> FALSE] :
             m \in ProbeErrors}

\* one entry of a status reply
Part(kind, display_name, ip, port, online_players, escaped) ==
    [kind |-> kind, display_name |-> display_name, ip |-> ip, port |-> port,
     online_players |-> online_players, raised |-> escaped]

\* query_single_server without the last except clause: an exception other
\* than the two mcping ones leaves the function
query_single_server_narrow(ip, port, server_name, outcome) ==
    LET display_name == IF server_name # None THEN server_name[1] ELSE <<ip, port>>
        players == DictGet(outcome.doc, "players", EmptyDict)
    IN  IF outcome.raises
        THEN IF outcome.msg = "timeout"
             THEN Part("timeout", display_name, ip, port, None, FALSE)
             ELSE IF outcome.msg = "invalid response"
             THEN Part("invalid response", display_name, ip, port, None, FALSE)
             ELSE Part("none", display_name, ip, port, None, TRUE)
        ELSE IF ~outcome.shaped
        THEN Part("none", display_name, ip, port, None, TRUE)
        ELSE Part("online", display_name, ip, port,
                  Some(DictGet(players, "online", 0)), FALSE)

\* the text query_single_server returns, by its kind and what it names;
\* get_server_status and format_server_status run inside one try with an
\* except clause for each mcping error and a last one for Exception
query_single_server(ip, port, server_name, outcome) ==
    LET display_name == IF server_name # None THEN server_name[1] ELSE <<ip, port>>
        players == DictGet(outcome.doc, "players", EmptyDict)
    IN  IF outcome.raises
        THEN IF outcome.msg = "timeout"
             THEN Part("timeout", display_name, ip, port, None, FALSE)
             ELSE IF outcome.msg = "invalid response"
             THEN Part("invalid response", display_name, ip, port, None, FALSE)
             ELSE Part("failed", display_name, ip, port, None, FALSE)
        ELSE IF ~outcome.shaped
        THEN Part("failed", display_name, ip, port, None, FALSE)
        ELSE Part("online", display_name, ip, port,
                  Some(DictGet(players, "online", 0)), FALSE)

\* the parts query_group_servers joins, by server name (the separators
\* between them are left out): a binding whose address does not parse gets
\* its own line and the loop continues
query_group_servers(bind, group_id, answers) ==
    IF group_id \notin DOMAIN bind \/ ~Truthy(bind[group_id])
    THEN EmptyDict
    ELSE [server_name \in DOMAIN bind[group_id] |->
            LET p == parse_server_address(bind[group_id][server_name])
            IN  IF ~p.ok
                THEN Part("bad address", server_name, <<>>, 0, None, FALSE)
                ELSE query_single_server(p.ip, p.port, Some(server_name),
                                         answers[server_name])]

\* what a /mcs reply is about: the group and the argument, the answers of
\* mcping.status, and the entries of the reply text
StatusData(g, arg, answers, parts) ==
    [group |-> g, arg |-> arg, answers |-> answers, parts |-> parts]

\* /mcs sent in group g, without an argument (arg = None: the group's
\* bindings) or with an address; answers gives what mcping.status answers for
\* each server queried. An exception leaving the handler is caught by
\* user_command_handler, which replies with a general error
handle_status_command(g, arg, answers) ==
    /\ ncmds < MaxCmds
    /\ ncmds' = ncmds + 1
    /\ IF arg = None
       THEN LET parts == query_group_servers(bind_servers, g, answers)
            IN  /\ DOMAIN answers = IF g \in DOMAIN bind_servers
                                    THEN DOMAIN bind_servers[g] ELSE {}
                /\ reply' = IF \E n \in DOMAIN parts : parts[n].raised
                            THEN Reply("status", "error", None)
                            ELSE Reply("status",
                                       IF Truthy(parts) THEN "group" ELSE "no servers",
                                       StatusData(g, arg, answers, parts))
       ELSE LET p == parse_server_address(arg[1])
                part == query_single_server(p.ip, p.port, None, answers[arg[1]])
            IN  /\ DOMAIN answers = {arg[1]}
                /\ reply' = IF ~p.ok
                            THEN Reply("status", "invalid address",
                                       StatusData(g, arg, answers, EmptyDict))
                            ELSE IF part.raised
                            THEN Reply("status", "error", None)
                            ELSE Reply("status", "single",
                                       StatusData(g, arg, answers, arg[1] :> part))
    /\ UNCHANGED <<config, store, now, tick, purge>>

\* ------------------------------------------------- monitor_all_servers
\* MonitoredBindings taking an address without a flag entry as monitored
MonitoredBindings_default_on(bind, mon) ==
    {gn \in UNION {{<<g, n>> : n \in DOMAIN bind[g]} : g \in DOMAIN bind} :
        DictGet(mon, bind[gn[1]][gn[2]], TRUE)}

\* the bindings whose address string has its monitor flag set
MonitoredBindings(bind, mon) ==
    {gn \in UNION {{<<g, n>> : n \in DOMAIN bind[g]} : g \in DOMAIN bind} :
        DictGet(mon, bind[gn[1]][gn[2]], FALSE)}

\* the set the first loop builds: a binding whose address does not parse is
\* logged and skipped
UniqueServers(bind, mon) ==
    {<<parse_server_address(bind[gn[1]][gn[2]]).ip,
       parse_server_address(bind[gn[1]][gn[2]]).port>> :
        gn \in {x \in MonitoredBindings(bind, mon) :
                   parse_server_address(bind[x[1]][x[2]]).ok}}

\* (end_time - start_time).total_seconds() * 1000
ResponseTime(start_time, end_time) == (end_time - start_time) * MsPerSecond

\* LoopBody with the offline save in a finally clause: it runs after a
\* successful save too
LoopBody_finally(h, conn, start_time, a, outcome, d, env) ==
    LET end_time == start_time + d
        r1 == IF ~outcome.raises
              THEN save_server_status(h, conn, end_time, a[1], a[2], outcome.doc,
                                      Some(ResponseTime(start_time, end_time)), None, env)
              ELSE [history |-> h, conn |-> conn, raised |-> FALSE]
    IN  save_server_offline_status(r1.history, r1.conn, end_time, a[1], a[2], None,
                                   Some(outcome.msg), env)

\* LoopBody without the try/except around the probe
LoopBody_no_try(h, conn, start_time, a, outcome, d, env) ==
    LET end_time == start_time + d
    IN  IF ~outcome.raises
        THEN save_server_status(h, conn, end_time, a[1], a[2], outcome.doc,
                                Some(ResponseTime(start_time, end_time)), None, env)
        ELSE [history |-> h, conn |-> conn, raised |-> TRUE]

\* one iteration of the second loop: probe, then save the status, or on any
\* exception save the offline status; raised says an exception left the body
LoopBody(h, conn, start_time, a, outcome, d, env) ==
    LET end_time == start_time + d
    IN  IF ~outcome.raises
        THEN save_server_status(h, conn, end_time, a[1], a[2], outcome.doc,
                                Some(ResponseTime(start_time, end_time)), None, env)
        ELSE save_server_offline_status(h, conn, end_time, a[1], a[2], None,
                                        Some(outcome.msg), env)

\* LoopAdvance keeping an address whose probe raised, to probe it again
LoopAdvance_retry(remaining, a, outcome) ==
    IF outcome.raises THEN remaining ELSE remaining \ {a}

\* LoopAdvance leaving the loop at the first probe that raised
LoopAdvance_break(remaining, a, outcome) ==
    IF outcome.raises THEN {} ELSE remaining \ {a}

\* the for loop takes the next element whatever the iteration did
LoopAdvance(remaining, a, outcome) == remaining \ {a}

\* the outer try/except Exception of monitor_all_servers: an exception that
\* leaves the loop ends the tick, is logged and goes no further
OuterExcept(exc) == [aborted |-> exc, raised |-> FALSE]

\* monitor_collect reading the flags with setdefault(address, False), which
\* stores the default for every bound address
monitor_collect_setdefault ==
    /\ pc = "idle"
    /\ ticks < MaxTicks
    /\ pc' = "loop"
    /\ ticks' = ticks + 1
    /\ unique_servers' = UniqueServers(bind_servers, monitor_servers)
    /\ tick_set' = unique_servers'
    /\ probed' = [a \in tick_set' |-> 0]
    /\ recorded' = [a \in tick_set' |-> 0]
    /\ probe_failed' = {}
    /\ write_failed' = {}
    /\ aborted' = FALSE
    /\ raised' = FALSE
    /\ last' = None
    /\ bind0' = bind_servers
    /\ mon0' = monitor_servers
    /\ monitor_servers' =
          [address \in DOMAIN monitor_servers
                       \cup {bind_servers[gn[1]][gn[2]] : gn \in
                               UNION {{<<g, n>> : n \in DOMAIN bind_servers[g]} :
                                      g \in DOMAIN bind_servers}} |->
              DictGet(monitor_servers, address, FALSE)]
    /\ UNCHANGED <<bind_servers, store, now, ncmds, cmd>>

\* the first loop of monitor_all_servers: no await in it
monitor_collect ==
    /\ pc = "idle"
    /\ ticks < MaxTicks
    /\ pc' = "loop"
    /\ ticks' = ticks + 1
    /\ unique_servers' = UniqueServers(bind_servers, monitor_servers)
    /\ tick_set' = unique_servers'
    /\ probed' = [a \in tick_set' |-> 0]
    /\ recorded' = [a \in tick_set' |-> 0]
    /\ probe_failed' = {}
    /\ write_failed' = {}
    /\ aborted' = FALSE
    /\ raised' = FALSE
    /\ last' = None
    /\ bind0' = bind_servers
    /\ mon0' = monitor_servers
    /\ UNCHANGED <<config, store, now, ncmds, cmd>>

\* monitor_probe looking the configuration up again after each probe and
\* dropping the addresses that are no longer monitored
monitor_probe_reread(a, outcome, d, env) ==
    /\ pc = "loop"
    /\ a \in unique_servers
    /\ LET r == LoopBody(history, sqlite_conn, now, a, outcome, d, env)
           x == OuterExcept(r.raised)
       IN  /\ history' = r.history
           /\ sqlite_conn' = r.conn
           /\ now' = now + d
           /\ probed' = [probed EXCEPT ![a] = @ + 1]
           /\ recorded' = [recorded EXCEPT ![a] = @ + Len(r.history) - Len(history)]
           /\ probe_failed' = IF outcome.raises THEN probe_failed \cup {a} ELSE probe_failed
           /\ write_failed' = IF StoreRefuses(sqlite_conn, env) THEN write_failed \cup {a}
                              ELSE write_failed
           /\ last' = Some([addr |-> a, outcome |-> outcome,
                            start_time |-> now, end_time |-> now + d,
                            wrote |-> Len(r.history) > Len(history)])
           /\ aborted' = x.aborted
           /\ raised' = x.raised
           /\ IF x.aborted
              THEN pc' = "idle" /\ UNCHANGED unique_servers
              ELSE pc' = pc /\ unique_servers' = LoopAdvance(unique_servers, a, outcome)
                                    \cap UniqueServers(bind_servers, monitor_servers)
    /\ UNCHANGED <<config, ticks, tick_set, ncmds, bind0, mon0, cmd>>

\* one iteration of the second loop
monitor_probe(a, outcome, d, env) ==
    /\ pc = "loop"
    /\ a \in unique_servers
    /\ LET r == LoopBody(history, sqlite_conn, now, a, outcome, d, env)
           x == OuterExcept(r.raised)
       IN  /\ history' = r.history
           /\ sqlite_conn' = r.conn
           /\ now' = now + d
           /\ probed' = [probed EXCEPT ![a] = @ + 1]
           /\ recorded' = [recorded EXCEPT ![a] = @ + Len(r.history) - Len(history)]
           /\ probe_failed' = IF outcome.raises THEN probe_failed \cup {a} ELSE probe_failed
           /\ write_failed' = IF StoreRefuses(sqlite_conn, env) THEN write_failed \cup {a}
                              ELSE write_failed
           /\ last' = Some([addr |-> a, outcome |-> outcome,
                            start_time |-> now, end_time |-> now + d,
                            wrote |-> Len(r.history) > Len(history)])
           /\ aborted' = x.aborted
           /\ raised' = x.raised
           /\ IF x.aborted
              THEN pc' = "idle" /\ UNCHANGED unique_servers
              ELSE pc' = pc /\ unique_servers' = LoopAdvance(unique_servers, a, outcome)
    /\ UNCHANGED <<config, ticks, tick_set, ncmds, bind0, mon0, cmd>>

monitor_return ==
    /\ pc = "loop"
    /\ unique_servers = {}
    /\ pc' = "idle"
    /\ UNCHANGED <<config, store, now, unique_servers, ticks, ncmds, tick_set, probed,
                   recorded, probe_failed, write_failed, aborted, raised, last,
                   bind0, mon0, cmd>>

Next ==
    \/ \E g \in Groups, name \in NameInputs, address \in AddrInputs :
          handle_add_command(g, name, address)
    \/ \E g \in Groups, name \in NameInputs : handle_delete_command(g, name)
    \/ \E g \in Groups, name \in NameInputs, b \in BOOLEAN :
          handle_monitor_set_command(g, name, b)
    \/ monitor_collect
    \/ \E a \in unique_servers, outcome \in ProbeOutcomes, d \in Durations,
          env \in StoreEnvs : monitor_probe(a, outcome, d, env)
    \/ monitor_return

Spec == Init /\ [][Next]_vars

\* ---------------------------------------- handle_monitor_purge_command
DEFAULT_DAYS == 30
MIN_DAYS == 1
MAX_DAYS == 365

\* PurgeDays accepting every number that is not negative
PurgeDays_zero(arg) ==
    IF arg = None THEN [verdict |-> "ok", days |-> DEFAULT_DAYS]
    ELSE LET n == PyInt(arg[1])
         IN  IF ~n.ok THEN [verdict |-> "not a number", days |-> 0]
             ELSE IF n.val < 0 THEN [verdict |-> "too small", days |-> n.val]
             ELSE IF n.val > MAX_DAYS THEN [verdict |-> "too large", days |-> n.val]
             ELSE [verdict |-> "ok", days |-> n.val]

\* the argument parsing of the handler: command[2] when it is there
PurgeDays(arg) ==
    IF arg = None THEN [verdict |-> "ok", days |-> DEFAULT_DAYS]
    ELSE LET n == PyInt(arg[1])
         IN  IF ~n.ok THEN [verdict |-> "not a number", days |-> 0]
             ELSE IF n.val < MIN_DAYS THEN [verdict |-> "too small", days |-> n.val]
             ELSE IF n.val > MAX_DAYS THEN [verdict |-> "too large", days |-> n.val]
             ELSE [verdict |-> "ok", days |-> n.val]

\* purge_begin reading the statistics before it looks at the argument
purge_begin_eager(arg, env) ==
    /\ purge.pc = "idle"
    /\ ncmds < MaxCmds
    /\ ncmds' = ncmds + 1
    /\ LET d == PurgeDays(arg)
           before == get_database_stats(history, sqlite_conn, env)
       IN  /\ sqlite_conn' = before.conn
           /\ IF d.verdict # "ok"
              THEN /\ reply' = Reply("purge", d.verdict, [arg |-> arg])
                   /\ UNCHANGED purge
              ELSE IF DictGet(before.stats, "total_records", 0) = 0
                   THEN /\ reply' = Reply("purge", "no data",
                                          [arg |-> arg, days |-> d.days,
                                           failed |-> StoreRefuses(sqlite_conn, env)])
                        /\ UNCHANGED purge
                   ELSE /\ reply' = Reply("purge", "cleaning",
                                          [arg |-> arg, days |-> d.days,
                                           failed |-> StoreRefuses(sqlite_conn, env)])
                        /\ purge' = [PurgeIdle EXCEPT !.pc = "cleanup", !.t0 = now,
                                                      !.days = d.days,
                                                      !.before = before.stats]
    /\ UNCHANGED <<config, history, now, tick>>

\* /mcmonitor purge [days], up to its first reply: the argument, the
\* statistics before, and the return when they show no record
purge_begin(arg, env) ==
    /\ purge.pc = "idle"
    /\ ncmds < MaxCmds
    /\ ncmds' = ncmds + 1
    /\ LET d == PurgeDays(arg)
           before == get_database_stats(history, sqlite_conn, env)
       IN  IF d.verdict # "ok"
           THEN /\ reply' = Reply("purge", d.verdict, [arg |-> arg])
                /\ UNCHANGED <<sqlite_conn, purge>>
           ELSE /\ sqlite_conn' = before.conn
                /\ IF DictGet(before.stats, "total_records", 0) = 0
                   THEN /\ reply' = Reply("purge", "no data",
                                          [arg |-> arg, days |-> d.days,
                                           failed |-> StoreRefuses(sqlite_conn, env)])
                        /\ UNCHANGED purge
                   ELSE /\ reply' = Reply("purge", "cleaning",
                                          [arg |-> arg, days |-> d.days,
                                           failed |-> StoreRefuses(sqlite_conn, env)])
                        /\ purge' = [PurgeIdle EXCEPT !.pc = "cleanup", !.t0 = now,
                                                      !.days = d.days,
                                                      !.before = before.stats]
    /\ UNCHANGED <<config, history, now, tick>>

\* deleted_count = await self.cleanup_old_data(days)
purge_cleanup(env) ==
    /\ purge.pc = "cleanup"
    /\ LET r == cleanup_old_data(history, sqlite_conn, now, purge.days, env)
       IN  /\ history' = r.history
           /\ sqlite_conn' = r.conn
           /\ purge' = [purge EXCEPT !.pc = "report", !.deleted = r.deleted,
                                     !.h0 = history, !.at = now,
                                     !.failed = StoreRefuses(sqlite_conn, env)]
    /\ UNCHANGED <<config, now, tick, ncmds, reply>>

\* purge_report taking the total after from the total before and the number
\* deleted instead of reading it
purge_report_computed(env) ==
    /\ purge.pc = "report"
    /\ LET after == get_database_stats(history, sqlite_conn, env)
       IN  /\ sqlite_conn' = after.conn
           /\ reply' = Reply("purge", "report",
                             [days |-> purge.days, deleted |-> purge.deleted,
                              before |-> DictGet(purge.before, "total_records", 0),
                              after |-> DictGet(purge.before, "total_records", 0)
                                        - purge.deleted,
                              h0 |-> purge.h0, at |-> purge.at,
                              failed |-> purge.failed])
           /\ purge' = PurgeIdle
    /\ UNCHANGED <<config, history, now, tick, ncmds>>

\* the statistics after, and the report
purge_report(env) ==
    /\ purge.pc = "report"
    /\ LET after == get_database_stats(history, sqlite_conn, env)
       IN  /\ sqlite_conn' = after.conn
           /\ reply' = Reply("purge", "report",
                             [days |-> purge.days, deleted |-> purge.deleted,
                              before |-> DictGet(purge.before, "total_records", 0),
                              after |-> DictGet(after.stats, "total_records", 0),
                              h0 |-> purge.h0, at |-> purge.at,
                              failed |-> purge.failed])
           /\ purge' = PurgeIdle
    /\ UNCHANGED <<config, history, now, tick, ncmds>>

\* ------------------------------------ the store and the commands on it
\* The database file outlives the process: the tables a start can find, left
\* by earlier ticks. StoreNow is the clock at that start.
Day(n) == n * SecondsPerDay
StoreNow == Day(40)
IpA == <<"a">>
IpB == <<"b">>
PortB == 8
StoredHistories ==
    { <<>>,
      << Row(Day(5), IpA, DEFAULT_PORT, Some(2), Some(1000), "online", None),
         Row(Day(10), IpA, DEFAULT_PORT, None, None, "offline", Some("timeout")),
         Row(Day(20), IpB, PortB, Some(2), Some(2000), "online", None),
         Row(StoreNow - SecondsPerHour, IpA, DEFAULT_PORT, Some(0), Some(2000),
             "online", None),
         Row(StoreNow - 60, IpA, DEFAULT_PORT, Some(3), Some(1000), "online", None) >>,
      \* the wall clock was set back between two ticks
      << Row(StoreNow - 10, IpA, DEFAULT_PORT, Some(2), Some(2000), "online", None),
         Row(StoreNow - 20, IpA, DEFAULT_PORT, None, None, "offline",
             Some("timeout")),
         Row(StoreNow - 20, IpB, PortB, None, None, "offline", Some("timeout")) >> }

PurgeArgs == {None, Some(<<"0">>), Some(<<"1">>), Some(<<"3", "6", "5">>),
              Some(<<"3", "6", "6">>), Some(<<"x">>)}
StatsNames == {<<"s">>, <<"t">>, <<"u">>, <<"v">>}
HoursInputs == {0 - 1, 24, 960}
StoreProbeOutcomes ==
    {[raises |-> FALSE, doc |-> DocFull, msg |-> ""],
     [raises |-> TRUE, doc |-> EmptyDict, msg |-> "timeout"]}
QueryProbeOutcomes ==
    StoreProbeOutcomes \cup {[raises |-> FALSE, doc |-> DocNoPlayers, msg |-> ""]}
\* the database works, or it is gone for the whole operation
EnvOk == [alive |-> TRUE, up |-> TRUE, exec_ok |-> TRUE, alive2 |-> TRUE, up2 |-> TRUE]
EnvGone ==
    [alive |-> FALSE, up |-> FALSE, exec_ok |-> FALSE, alive2 |-> FALSE, up2 |-> FALSE]
\* the statement fails on a live connection
EnvExecFails ==
    [alive |-> TRUE, up |-> TRUE, exec_ok |-> FALSE, alive2 |-> TRUE, up2 |-> TRUE]
\* the connection is dead and cannot be reopened when the operation starts;
\* by the time its except branch reconnects the database is back and would
\* accept the statement
EnvRecovers ==
    [alive |-> FALSE, up |-> FALSE, exec_ok |-> TRUE, alive2 |-> FALSE, up2 |-> TRUE]
SimpleEnvs == {EnvOk, EnvGone}
ReadEnvs == {EnvOk, EnvExecFails, EnvRecovers}

StoreInit ==
    /\ \E d \in {x \in PersistedData : x.bind_servers # EmptyDict} :
          /\ bind_servers = d.bind_servers
          /\ monitor_servers = d.monitor_servers
    /\ history \in StoredHistories
    /\ sqlite_conn = "open"
    /\ now = StoreNow
    /\ pc = "idle"
    /\ unique_servers = {}
    /\ ticks = 0
    /\ ncmds = 0
    /\ tick_set = {}
    /\ probed = EmptyDict
    /\ recorded = EmptyDict
    /\ probe_failed = {}
    /\ write_failed = {}
    /\ aborted = FALSE
    /\ raised = FALSE
    /\ last = None
    /\ bind0 = EmptyDict
    /\ mon0 = EmptyDict
    /\ reply = NoReply
    /\ purge = PurgeIdle

\* ticks and /mcstats over a stored table
QueryNext ==
    \/ \E g \in Groups, name \in StatsNames, hours \in HoursInputs,
          env \in ReadEnvs : handle_stats_command(g, name, hours, env)
    \/ monitor_collect
    \/ \E a \in unique_servers, outcome \in QueryProbeOutcomes,
          env \in SimpleEnvs : monitor_probe(a, outcome, 1, env)
    \/ monitor_return

QuerySpec == StoreInit /\ [][QueryNext]_vars

\* ticks, /mcmonitor purge, /mcadd and a /mcstats over a stored table
PurgeNext ==
    \/ \E g \in Groups, name \in NameInputs, address \in {AddrA, AddrBad} :
          handle_add_command(g, name, address)
    \/ \E env \in SimpleEnvs : handle_stats_command(2, <<"s">>, 24, env)
    \/ \E arg \in PurgeArgs, env \in SimpleEnvs : purge_begin(arg, env)
    \/ \E env \in ReadEnvs : purge_cleanup(env)
    \/ \E env \in SimpleEnvs : purge_report(env)
    \/ monitor_collect
    \/ \E a \in unique_servers, outcome \in StoreProbeOutcomes,
          env \in SimpleEnvs : monitor_probe(a, outcome, 1, env)
    \/ monitor_return

PurgeSpec == StoreInit /\ [][PurgeNext]_vars

\* names sent with /mcchart: s is monitored in both groups, u does not parse,
\* v is bound in group 1 without a monitor flag
ChartNames == {<<"s">>, <<"u">>, <<"v">>}

\* ticks and /mcchart over a stored table
ChartNext ==
    \/ \E g \in Groups, name \in ChartNames, hours \in HoursInputs,
          env \in {EnvOk, EnvExecFails}, render \in RenderOutcomes :
          handle_chart_command(g, name, hours, env, render)
    \/ monitor_collect
    \/ \E a \in unique_servers, outcome \in StoreProbeOutcomes,
          env \in SimpleEnvs : monitor_probe(a, outcome, 1, env)
    \/ monitor_return

ChartSpec == StoreInit /\ [][ChartNext]_vars

\* addresses and names typed into /mcs and /mcadd
ParseInputs ==
    {AddrA, AddrAPort, AddrBad, <<":", "8">>, <<"a", ":", "0">>,
     <<"a", ":", "7", "0", "0", "0", "0">>, <<"a", ":", "-", "1">>,
     <<"a", ":">>, <<"a", ":", "1", ":", "2">>}
NameProbes ==
    {<<"s">>, <<"b", "!">>, <<"n", "\n">>, <<>>, <<"A", "_", "-", "9">>, <<"a", " ">>}
GroupOutcomes ==
    {o \in StatusOutcomes : ~o.raises \/ o.msg = "timeout"}

\* /mcs and /mcadd on the loaded configuration
StatusNext ==
    \/ \E g \in Groups, address \in ParseInputs, outcome \in StatusOutcomes :
          handle_status_command(g, Some(address), address :> outcome)
    \/ \E g \in Groups :
          \E answers \in [DOMAIN DictGet(bind_servers, g, EmptyDict) -> GroupOutcomes] :
             handle_status_command(g, None, answers)
    \/ \E g \in Groups, name \in NameProbes, address \in ParseInputs :
          handle_add_command(g, name, address)

StatusSpec == Init /\ [][StatusNext]_vars

\* a data file in which group 1 and group 2 bind one server under two
\* spellings, neither flagged for monitoring, and group 1 binds a monitored
\* server
AddrCPort == <<"c", ":", "2", "5", "5", "6", "5">>
FlagNames == {<<"s">>, <<"v">>, <<"w">>}
FlagInit ==
    /\ bind_servers = (1 :> ((<<"s">> :> AddrA) @@ (<<"v">> :> AddrC))) @@
                      (2 :> (<<"w">> :> AddrCPort))
    /\ monitor_servers = (AddrA :> TRUE)
    /\ history = <<>>
    /\ sqlite_conn = "open"
    /\ now = StoreNow
    /\ pc = "idle"
    /\ unique_servers = {}
    /\ ticks = 0
    /\ ncmds = 0
    /\ tick_set = {}
    /\ probed = EmptyDict
    /\ recorded = EmptyDict
    /\ probe_failed = {}
    /\ write_failed = {}
    /\ aborted = FALSE
    /\ raised = FALSE
    /\ last = None
    /\ bind0 = EmptyDict
    /\ mon0 = EmptyDict
    /\ reply = NoReply
    /\ purge = PurgeIdle

\* ticks, /mcmonitor set and /mcchart
FlagNext ==
    \/ \E g \in Groups, name \in FlagNames, is_monitoring \in BOOLEAN :
          handle_monitor_set_command(g, name, is_monitoring)
    \/ \E g \in Groups, name \in FlagNames, render \in {"ok", "save fails"} :
          handle_chart_command(g, name, 24, EnvOk, render)
    \/ monitor_collect
    \/ \E a \in unique_servers, outcome \in StoreProbeOutcomes :
          monitor_probe(a, outcome, 1, EnvOk)
    \/ monitor_return

FlagSpec == FlagInit /\ [][FlagNext]_vars

\* every core operation over a stored table, and /mcmonitor set
CoreNext ==
    \/ \E name \in {<<"s">>, <<"t">>}, is_monitoring \in BOOLEAN :
          handle_monitor_set_command(2, name, is_monitoring)
    \/ \E hours \in {24, 960} : handle_stats_command(2, <<"s">>, hours, EnvOk)
    \/ \E render \in {"ok", "save fails"} :
          handle_chart_command(2, <<"s">>, 24, EnvOk, render)
    \/ \E arg \in {None, Some(<<"1">>)} : purge_begin(arg, EnvOk)
    \/ \E env \in SimpleEnvs : purge_cleanup(env)
    \/ purge_report(EnvOk)
    \/ monitor_collect
    \/ \E a \in unique_servers, outcome \in StoreProbeOutcomes :
          monitor_probe(a, outcome, 1, EnvOk)
    \/ monitor_return

CoreSpec == StoreInit /\ [][CoreNext]_vars

\* the tick loop and the three configuration commands, where the event loop resumes
\* the tick whenever its probe has returned or failed: a step of the loop
\* that stays possible is taken
LiveNext ==
    \/ \E g \in Groups : handle_add_command(g, <<"w">>, AddrB)
    \/ \E g \in Groups, name \in {<<"s">>} : handle_delete_command(g, name)
    \/ \E g \in Groups, name \in {<<"s">>, <<"t">>, <<"v">>, <<"w">>},
          is_monitoring \in BOOLEAN :
          handle_monitor_set_command(g, name, is_monitoring)
    \/ monitor_collect
    \/ \E a \in unique_servers, outcome \in StoreProbeOutcomes, env \in SimpleEnvs :
          monitor_probe(a, outcome, 1, env)
    \/ monitor_return

LiveSpec ==
    /\ Init
    /\ [][LiveNext]_vars
    /\ WF_vars(\E a \in unique_servers, outcome \in StoreProbeOutcomes,
                  env \in SimpleEnvs : monitor_probe(a, outcome, 1, env))
    /\ WF_vars(monitor_return)

\* ticks, /mcdel and /mcadd on the loaded configuration
RebindNext ==
    \/ \E g \in Groups, name \in {<<"s">>, <<"t">>} : handle_delete_command(g, name)
    \/ \E g \in Groups, name \in {<<"t">>, <<"w">>}, address \in {AddrA, AddrB} :
          handle_add_command(g, name, address)
    \/ monitor_collect
    \/ \E a \in unique_servers, outcome \in StoreProbeOutcomes, env \in SimpleEnvs :
          monitor_probe(a, outcome, 1, env)
    \/ monitor_return

RebindSpec == Init /\ [][RebindNext]_vars

\* /mcmonitor set, /mcstats and /mcchart over a stored table, with the
\* database working or gone
GateNames == {<<"s">>, <<"t">>, <<"u">>, <<"v">>}
GateNext ==
    \/ \E g \in Groups, is_monitoring \in BOOLEAN :
          handle_monitor_set_command(g, <<"s">>, is_monitoring)
    \/ \E g \in Groups, name \in GateNames, env \in SimpleEnvs :
          handle_stats_command(g, name, 960, env)
    \/ \E g \in Groups, name \in GateNames, env \in SimpleEnvs :
          handle_chart_command(g, name, 960, env, "ok")

GateSpec == StoreInit /\ [][GateNext]_vars

\* ---------------------------------------------------------------- claims
TickDone == pc = "idle" /\ ticks > 0

\* the (group, name) bindings of a bind table, and the pair a binding parses to
Bindings(bind) == UNION {{<<g, n>> : n \in DOMAIN bind[g]} : g \in DOMAIN bind}
PairOf(address) ==
    <<parse_server_address(address).ip, parse_server_address(address).port>>
BoundTo(bind, a) ==
    {gn \in Bindings(bind) : /\ parse_server_address(bind[gn[1]][gn[2]]).ok
                             /\ PairOf(bind[gn[1]][gn[2]]) = a}

\* C1: within one tick every (host, port) pair is probed at most once, however
\* many bindings and spellings resolve to it; a failed probe is not retried
C1_ProbedAtMostOnce == \A a \in DOMAIN probed : probed[a] <= 1

\* a finished tick in which a pair bound in two groups under two spellings
\* was probed once, and that probe failed
C1_Witness ==
    /\ TickDone
    /\ \E a \in probe_failed :
          /\ probed[a] = 1
          /\ \E x, y \in BoundTo(bind0, a) :
                /\ x[1] # y[1]
                /\ bind0[x[1]][x[2]] # bind0[y[1]][y[2]]
                /\ DictGet(mon0, bind0[x[1]][x[2]], FALSE)
                /\ DictGet(mon0, bind0[y[1]][y[2]], FALSE)

\* C2 as stated: a finished tick has appended exactly one row for each unique
\* monitored address
C2_ExactlyOneRow == TickDone => \A a \in tick_set : recorded[a] = 1

\* C2 amended: a tick appends at most one row for each unique monitored address,
\* and exactly one when the database accepts the insert for that address
C2_OneRowUnlessRefused ==
    /\ \A a \in DOMAIN recorded : recorded[a] <= 1
    /\ TickDone => \A a \in tick_set : a \notin write_failed => recorded[a] = 1

\* a finished tick that appended one row for a pair bound in two groups
C2_Witness ==
    /\ TickDone
    /\ \E a \in tick_set :
          /\ recorded[a] = 1
          /\ \E x, y \in BoundTo(bind0, a) :
                /\ x[1] # y[1]
                /\ DictGet(mon0, bind0[x[1]][x[2]], FALSE)
                /\ DictGet(mon0, bind0[y[1]][y[2]], FALSE)

\* C3: when the probe of address A fails, every other address B of the tick is
\* still probed, and its row is recorded unless the database refuses B's insert
C3_Isolation ==
    TickDone =>
        \A a \in probe_failed : \A b \in tick_set \ {a} :
            /\ probed[b] = 1
            /\ b \in write_failed \/ recorded[b] = 1

\* a finished tick in which A's probe failed and B, probed after A, succeeded
\* and has its row
C3_Witness ==
    /\ TickDone
    /\ last # None
    /\ \E a \in probe_failed :
          /\ last[1].addr # a
          /\ ~last[1].outcome.raises
          /\ recorded[last[1].addr] = 1

\* C4: no exception leaves a tick, and a tick goes through all its addresses
\* whatever the probes and the store do
C4_TickNeverRaises ==
    /\ ~raised
    /\ ~aborted
    /\ TickDone => \A a \in tick_set : probed[a] = 1

\* a finished tick over two addresses, with a malformed monitored binding, a
\* failed probe and every insert refused, the connection lost at the end
C4_Witness ==
    /\ TickDone
    /\ Cardinality(tick_set) = 2
    /\ write_failed = tick_set
    /\ probe_failed # {}
    /\ sqlite_conn = "none"
    /\ \E gn \in Bindings(bind0) :
          /\ DictGet(mon0, bind0[gn[1]][gn[2]], FALSE)
          /\ ~parse_server_address(bind0[gn[1]][gn[2]]).ok

\* C6: the pairs a tick probes are those of the bindings whose address string
\* had its flag set when the tick started: every probed pair has such a
\* binding, and at the end every such binding's pair has been probed
C6_ProbedAreMonitored ==
    /\ \A a \in DOMAIN probed : probed[a] >= 1 =>
          \E gn \in BoundTo(bind0, a) :
              /\ bind0[gn[1]][gn[2]] \in DOMAIN mon0
              /\ mon0[bind0[gn[1]][gn[2]]] = TRUE
    /\ TickDone =>
          \A gn \in Bindings(bind0) :
              LET address == bind0[gn[1]][gn[2]]
              IN  (/\ address \in DOMAIN mon0
                   /\ mon0[address] = TRUE
                   /\ parse_server_address(address).ok)
                  => (PairOf(address) \in DOMAIN probed /\ probed[PairOf(address)] >= 1)

\* a finished tick that probed one pair and left alone a bound pair whose
\* address string has its flag off, and one that has no flag entry
C6_Witness ==
    /\ TickDone
    /\ \E a \in tick_set : probed[a] = 1
    /\ \E gn \in Bindings(bind0) :
          /\ bind0[gn[1]][gn[2]] \in DOMAIN mon0
          /\ mon0[bind0[gn[1]][gn[2]]] = FALSE
          /\ PairOf(bind0[gn[1]][gn[2]]) \notin tick_set
    /\ \E gn \in Bindings(bind0) :
          /\ bind0[gn[1]][gn[2]] \notin DOMAIN mon0
          /\ parse_server_address(bind0[gn[1]][gn[2]]).ok
          /\ PairOf(bind0[gn[1]][gn[2]]) \notin tick_set

\* the document of the last probe carries an online count
LastHasOnlineCount ==
    /\ last # None
    /\ ~last[1].outcome.raises
    /\ "players" \in DOMAIN last[1].outcome.doc
    /\ "online" \in DOMAIN last[1].outcome.doc.players

C8_OfflineRow ==
    (last # None /\ last[1].outcome.raises) =>
        /\ ~aborted
        /\ last[1].addr \notin unique_servers
        /\ last[1].wrote =>
              /\ Len(history) > 0
              /\ history[Len(history)].server_ip = last[1].addr[1]
              /\ history[Len(history)].server_port = last[1].addr[2]
              /\ history[Len(history)].status = "offline"
              /\ history[Len(history)].online_players = None
              /\ history[Len(history)].error_message = Some(last[1].outcome.msg)

\* a tick that has just recorded a timed-out probe and still has an address to go
C8_Witness ==
    /\ pc = "loop"
    /\ unique_servers # {}
    /\ last # None
    /\ last[1].outcome.raises
    /\ last[1].outcome.msg = "timeout"
    /\ last[1].wrote

\* C9 as stated: every online row has a player count
C9_OnlineHasCount ==
    \A i \in 1..Len(history) :
        history[i].status = "online" => history[i].online_players # None

\* C10: a row carries an error message only if it is offline
C10_ErrorOnlyOffline ==
    \A i \in 1..Len(history) :
        history[i].error_message # None => history[i].status = "offline"

\* a store holding an online row and an offline row with its error message
C10_Witness ==
    /\ \E i \in 1..Len(history) :
          history[i].status = "offline" /\ history[i].error_message # None
    /\ \E i \in 1..Len(history) :
          history[i].status = "online" /\ history[i].error_message = None

\* ------------------------------------------- claims on the history store
Range(q) == {q[i] : i \in 1..Len(q)}
IsPrefix(p, q) == Len(p) <= Len(q) /\ SubSeq(q, 1, Len(p)) = p
\* q is p with some rows taken out and every other row as it was
RowsRemoved(p, q) == q = SelectSeq(p, LAMBDA r : r \in Range(q))

\* C11: the history table is append-only: every step of a tick, a statistics
\* query, an add or a purge leaves the stored rows as they are and at most
\* appends rows after them; only the deletion step of the purge command takes
\* rows out, and it leaves the rows it keeps unchanged
C11_AppendOnly ==
    [][ \/ IsPrefix(history, history')
        \/ /\ purge.pc = "cleanup"
           /\ purge'.pc = "report"
           /\ RowsRemoved(history, history') ]_vars

\* a purge has deleted some stored rows and kept others, and a tick has
\* appended a row after the stored ones
C11_Witness ==
    /\ reply.cmd = "purge" /\ reply.verdict = "report"
    /\ reply.data.deleted > 0
    /\ \E i, j \in 1..Len(history) :
          /\ i < j
          /\ history[i] \in Range(reply.data.h0)
          /\ history[j].timestamp > StoreNow

\* the /mcstats reply in hand came from a get_server_history that the
\* database answered
Answered == reply.cmd = "stats" /\ reply.data # None /\ ~reply.data.failed
\* the indexes of the rows of table h that belong to a query: its address,
\* and a timestamp not before now - hours
InWindow(h, d) ==
    {i \in 1..Len(h) : /\ h[i].server_ip = d.ip
                       /\ h[i].server_port = d.port
                       /\ h[i].timestamp >= d.at - d.hours * SecondsPerHour}
\* entry e shows stored row r
Shows(e, r) ==
    /\ e.timestamp = r.timestamp
    /\ e.online_players = r.online_players
    /\ e.response_time = r.response_time
    /\ e.status = r.status
    /\ e.error_message = r.error_message

\* C12: when the database answers, get_server_history(host, port, hours)
\* returns the stored rows of (host, port) whose timestamp >= now - hours,
\* each one once and no other row, in ascending timestamp order
C12_HistoryWindow ==
    Answered =>
        LET d == reply.data
            I == InWindow(d.table, d)
        IN  /\ Len(d.rows) = Cardinality(I)
            /\ \A i \in I :
                  Cardinality({k \in 1..Len(d.rows) : Shows(d.rows[k], d.table[i])})
                  = Cardinality({j \in I : d.table[j] = d.table[i]})
            /\ \A k \in 1..Len(d.rows) : \E i \in I : Shows(d.rows[k], d.table[i])
            /\ \A k, l \in 1..Len(d.rows) :
                  k < l => d.rows[k].timestamp <= d.rows[l].timestamp

\* a query answered with several rows, one of them appended by a tick, while
\* the table also holds an older row of the same address and a row of
\* another address inside the window
C12_Witness ==
    /\ Answered
    /\ Len(reply.data.rows) >= 2
    /\ \E k \in 1..Len(reply.data.rows) : reply.data.rows[k].timestamp > StoreNow
    /\ \E i \in 1..Len(reply.data.table) :
          /\ reply.data.table[i].server_ip = reply.data.ip
          /\ reply.data.table[i].timestamp
                < reply.data.at - reply.data.hours * SecondsPerHour
    /\ \E i \in 1..Len(reply.data.table) :
          /\ reply.data.table[i].server_ip # reply.data.ip
          /\ reply.data.table[i].timestamp
                >= reply.data.at - reply.data.hours * SecondsPerHour

\* C13 as stated: an append whose row could not be persisted reports the
\* write error to its caller, the tick, whose outer except then ends the tick
C13_WriteErrorReported == write_failed # {} => aborted

\* C13 amended: an append whose row cannot be persisted returns normally: the
\* tick goes on as after a successful append and no row is stored for that
\* address
C13_WriteErrorSwallowed ==
    \A a \in write_failed : recorded[a] = 0 /\ ~aborted /\ ~raised

\* a finished tick in which the row of a successful probe was refused by the
\* database, and the tick went on to store the row of another address
C13_Witness ==
    /\ TickDone
    /\ \E a \in write_failed \ probe_failed : recorded[a] = 0
    /\ \E b \in tick_set \ write_failed : recorded[b] = 1

\* the /mcstats reply in hand came from a get_server_history that the
\* database refused
Refused == reply.cmd = "stats" /\ reply.data # None /\ reply.data.failed

StoreReplies == {"no history", "stats", "no data", "cleaning", "report"}
\* the store operation behind the reply in hand was refused by the database
ReplyAfterFailure ==
    /\ reply.cmd \in {"stats", "purge"}
    /\ reply.verdict \in StoreReplies
    /\ reply.data.failed

\* C15: a store failure behind a statistics or purge command is answered
\* with an error, never with one of the replies of a working store (no
\* history, statistics, no data to clean, cleaning, the purge report)
C15_FailureSurfaced == ReplyAfterFailure => reply.verdict \notin StoreReplies

\* C16: when the database carries it out, cleanup_old_data(days) takes out
\* the rows of every address whose timestamp is before now - days, leaves
\* every other row in place, among them the rows a tick has appended since
\* the purge command started, and returns the number of rows it took out: 0,
\* with the table unchanged, when no row is that old
C16_PurgeExact ==
    [][ (purge.pc = "cleanup" /\ purge'.pc = "report" /\ ~purge'.failed)
        => /\ history' = SelectSeq(history,
                             LAMBDA r : r.timestamp >= now - purge.days * SecondsPerDay)
           /\ purge'.deleted = Len(history) - Len(history')
           /\ (\A i \in 1..Len(history) :
                  history[i].timestamp >= now - purge.days * SecondsPerDay)
              => (purge'.deleted = 0 /\ history' = history) ]_vars

\* a deletion that took out stored rows of two addresses and kept a stored
\* row together with a row that a tick appended after the command started
C16_Witness ==
    /\ purge.pc = "report" /\ ~purge.failed
    /\ purge.deleted >= 2
    /\ \E i, j \in 1..Len(purge.h0) :
          /\ purge.h0[i] \notin Range(history)
          /\ purge.h0[j] \notin Range(history)
          /\ purge.h0[i].server_ip # purge.h0[j].server_ip
    /\ \E i, j \in 1..Len(history) :
          /\ history[i].timestamp <= StoreNow
          /\ history[j].timestamp > StoreNow
          /\ history[j] \in Range(purge.h0)

\* this step is the first part of a purge command
PurgeStarts == ncmds' = ncmds + 1 /\ reply'.cmd = "purge"
\* the retention a purge argument asks for is a number from 1 to 365
InRange(arg) ==
    /\ PyInt(arg[1]).ok
    /\ PyInt(arg[1]).val >= 1
    /\ PyInt(arg[1]).val <= 365

\* C17: a purge command with a days argument is accepted iff the argument is
\* a number d with 1 <= d <= 365, and rejected with a validation reply
\* otherwise; an accepted one goes on to the deletion with that d whenever the
\* statistics show a record
C17_PurgeRange ==
    [][ (PurgeStarts /\ reply'.data.arg # None)
        => /\ InRange(reply'.data.arg) <=> reply'.verdict \in {"no data", "cleaning"}
           /\ ~InRange(reply'.data.arg)
                 <=> reply'.verdict \in {"too small", "too large", "not a number"}
           /\ (InRange(reply'.data.arg) /\ history # <<>> /\ ~reply'.data.failed)
                 => /\ purge'.pc = "cleanup"
                    /\ purge'.days = PyInt(reply'.data.arg[1]).val ]_vars

\* purge 365 has been accepted and the deletion with 365 days is next
C17_Witness ==
    /\ reply.cmd = "purge" /\ reply.verdict = "cleaning"
    /\ reply.data.arg = Some(<<"3", "6", "5">>)
    /\ purge.pc = "cleanup" /\ purge.days = 365

\* the replies to an input that fails validation
ValidationReplies ==
    {<<"add", "invalid name">>, <<"add", "invalid address">>,
     <<"purge", "too small">>, <<"purge", "too large">>,
     <<"purge", "not a number">>}

\* C18: a command rejected for its input (an invalid name or a malformed
\* address on add; days below 1, above 365 or not a number on purge) has no
\* side effect: bindings, monitor flags, the history table, the database
\* connection and the state of a running purge are what they were
C18_RejectedNoEffect ==
    [][ (ncmds' = ncmds + 1 /\ <<reply'.cmd, reply'.verdict>> \in ValidationReplies)
        => UNCHANGED <<bind_servers, monitor_servers, history, sqlite_conn,
                       purge>> ]_vars

\* the second command, an add, was rejected for its address, with rows in
\* the table and the bindings in place
C18_Witness ==
    /\ ncmds = 2
    /\ reply.cmd = "add" /\ reply.verdict = "invalid address"
    /\ history # <<>>
    /\ purge.pc = "idle"
    /\ bind_servers # EmptyDict

\* the /mcstats reply in hand shows statistics
ShowsStats == reply.cmd = "stats" /\ reply.verdict = "stats"
\* the number of entries of a list whose status is online
OnlineStatusCount(l) == Cardinality({i \in 1..Len(l) : l[i].status = "online"})

\* C19: the statistics of a history window give total = number of rows,
\* online_count = number of rows whose status is online, offline_count =
\* total - online_count and uptime_rate = online_count / total * 100
C19_Counts ==
    ShowsStats =>
        LET st == reply.data.stats
            rows == reply.data.rows
        IN  /\ st.total_records = Len(rows)
            /\ st.online_records = OnlineStatusCount(rows)
            /\ st.offline_records = st.total_records - st.online_records
            /\ st.uptime_rate = Ratio(OnlineStatusCount(rows) * 100, Len(rows))

\* the player counts of the online rows of a list, and the response times
\* of its rows that have one
PlayerCounts(rows) ==
    LET sel == SelectSeq(rows, LAMBDA h : h.status = "online" /\ h.online_players # None)
    IN  [i \in 1..Len(sel) |-> sel[i].online_players[1]]
ResponseTimes(rows) ==
    LET sel == SelectSeq(rows, LAMBDA h : h.response_time # None)
    IN  [i \in 1..Len(sel) |-> sel[i].response_time[1]]
\* avg, hi and lo are the mean, the largest and the smallest element of l,
\* and all 0 when l is empty
Summarises(avg, hi, lo, l) ==
    IF l = <<>> THEN avg = Zero /\ hi = 0 /\ lo = 0
    ELSE /\ avg = Ratio(SumSeq(l), Len(l))
         /\ hi \in Range(l) /\ \A i \in 1..Len(l) : l[i] <= hi
         /\ lo \in Range(l) /\ \A i \in 1..Len(l) : l[i] >= lo
         /\ lo * avg.den <= avg.num
         /\ avg.num <= hi * avg.den

Charted == reply.cmd = "chart" /\ reply.verdict \in {"image", "no chart"}

\* C21: generate_status_chart never raises; it returns None when no stored
\* row of the address lies in the window, when the history query fails and
\* when a rendering step fails, and it returns a path only after savefig
\* wrote the image file
C21_ChartOrNone ==
    Charted =>
        LET d == reply.data
        IN  /\ ~d.raised
            /\ InWindow(d.table, d) = {} => d.path = None
            /\ d.failed => d.path = None
            /\ d.render # "ok" => d.path = None
            /\ d.path # None => d.written

\* a chart returned for a window that holds a row appended by a tick
C21_Witness ==
    /\ Charted
    /\ reply.verdict = "image"
    /\ reply.data.path # None
    /\ reply.data.written
    /\ \E i \in InWindow(reply.data.table, reply.data) :
          reply.data.table[i].timestamp > StoreNow

\* the /mcs <address> reply in hand, and the address it was sent with
Parsed == reply.cmd = "status" /\ reply.data # None /\ reply.data.arg # None
\* address is host:N with one ':' and N a non-empty run of digits
HostAndPort(address, host, digits) ==
    /\ address = host \o <<":">> \o digits
    /\ ColonPositions(host) = {} /\ digits # <<>>
    /\ \A i \in 1..Len(digits) : IsDigit(digits[i])

\* C22: parse_server_address returns (string, 25565) for a string without
\* ':' and (host, N) for host:N with N numeric, the host as typed
C22_ParseAddress ==
    Parsed =>
        LET a == reply.data.arg[1]
            part == reply.data.parts[a]
        IN  /\ ColonPositions(a) = {} =>
                  /\ reply.verdict = "single"
                  /\ part.ip = a /\ part.port = 25565
            /\ \A p \in 1..Len(a) :
                  HostAndPort(a, SubSeq(a, 1, p - 1), SubSeq(a, p + 1, Len(a))) =>
                      /\ reply.verdict = "single"
                      /\ part.ip = SubSeq(a, 1, p - 1)
                      /\ part.port = DigitsValue(SubSeq(a, p + 1, Len(a)))

\* /mcs a:25565 answered for host a and port 25565
C22_Witness ==
    /\ Parsed
    /\ reply.data.arg[1] = AddrAPort
    /\ reply.verdict = "single"
    /\ reply.data.parts[AddrAPort].ip = <<"a">>
    /\ reply.data.parts[AddrAPort].port = 25565

\* C23: an address whose port segment is not a number or whose host segment
\* is empty is rejected by parse_server_address and yields no (host, port)
\* pair
C23_Rejected ==
    Parsed =>
        LET a == reply.data.arg[1]
        IN  \A p \in ColonPositions(a) :
               (~PyInt(SubSeq(a, p + 1, Len(a))).ok \/ SubSeq(a, 1, p - 1) = <<>>)
               => reply.verdict = "invalid address" /\ reply.data.parts = EmptyDict

\* C24: every pair the parser returns, to /mcs or for a binding, has its
\* port in 1..65535
C24_PortInRange ==
    /\ Parsed => \A a \in DOMAIN reply.data.parts :
                    reply.data.parts[a].port \in 1..65535
    /\ \A gn \in Bindings(bind_servers) :
          parse_server_address(bind_servers[gn[1]][gn[2]]).ok
          => PairOf(bind_servers[gn[1]][gn[2]])[2] \in 1..65535

\* C25: only a non-empty name made of A-Z, a-z, 0-9, '_' and '-' passes
\* validate_server_name, so every binding has such a name
C25_NamesWellFormed ==
    \A gn \in Bindings(bind_servers) :
        /\ gn[2] # <<>>
        /\ \A i \in 1..Len(gn[2]) : gn[2][i] \in NameClass

\* a step that handles /mcs
StatusStep == ncmds' # ncmds /\ reply'.cmd = "status"
\* the entry an answer of mcping.status is turned into
KindOf(outcome) ==
    IF outcome.raises /\ outcome.msg = "timeout" THEN "timeout"
    ELSE IF outcome.raises /\ outcome.msg = "invalid response" THEN "invalid response"
    ELSE IF outcome.raises \/ ~outcome.shaped THEN "failed"
    ELSE "online"

\* C28: handling /mcs never raises and leaves the history store alone; a
\* timeout, an invalid response and any other failure each get their own
\* entry, and a group query has one entry for every binding of the group: an
\* address that does not parse and a server that does not answer take their
\* own entry and the other bindings are queried all the same
C28_QueryRecovers ==
    [][StatusStep =>
        /\ history' = history /\ sqlite_conn' = sqlite_conn
        /\ reply'.verdict # "error"
        /\ LET d == reply'.data
           IN  /\ \A n \in DOMAIN d.parts :
                     \/ d.parts[n].kind = "bad address"
                     \/ d.parts[n].kind = KindOf(d.answers[n])
               /\ d.arg = None /\ d.group \in DOMAIN bind_servers =>
                     /\ DOMAIN d.parts = DOMAIN bind_servers[d.group]
                     /\ \A n \in DOMAIN d.parts :
                           d.parts[n].kind = "bad address"
                           <=> ~parse_server_address(bind_servers[d.group][n]).ok]_vars

\* a group reply with an entry for an address that does not parse, one for
\* a server that timed out, one for a document that cannot be formatted and
\* one for a server that is online
C28_Witness ==
    /\ reply.cmd = "status" /\ reply.verdict = "group"
    /\ \A k \in {"bad address", "timeout", "failed", "online"} :
          \E n \in DOMAIN reply.data.parts : reply.data.parts[n].kind = k

\* a step in which /mcchart answers that the server is not monitored
ChartRefused ==
    ncmds' # ncmds /\ reply'.cmd = "chart" /\ reply'.verdict = "not monitored"

\* C26: the monitor flag belongs to the address: when one binding of a
\* (host, port) pair has monitoring enabled, so that the tick probes the
\* pair, /mcchart and /mcstats through any other binding that resolves to
\* the pair treat it as monitored too
C26_AddressLevel ==
    [][ChartRefused =>
        LET address == bind_servers[reply'.data.group][reply'.data.server_name]
        IN  parse_server_address(address).ok
            => PairOf(address) \notin UniqueServers(bind_servers, monitor_servers)]_vars

\* a step of a core operation: the tick, /mcstats (history query and
\* statistics), /mcchart, and /mcmonitor purge with its store statistics
CoreStep ==
    \/ tick' # tick
    \/ purge' # purge
    \/ ncmds' # ncmds /\ reply'.cmd \in {"stats", "chart", "purge"}

\* C27: no step of a core operation changes the bind table or the monitor
\* flags
C27_ConfigUntouched ==
    [][CoreStep => bind_servers' = bind_servers /\ monitor_servers' = monitor_servers]_vars

\* a finished tick that recorded rows and a finished purge that deleted
\* rows, with the configuration still in place
C27_Witness ==
    /\ TickDone
    /\ \E a \in DOMAIN recorded : recorded[a] > 0
    /\ reply.cmd = "purge" /\ reply.verdict = "report"
    /\ reply.data.deleted > 0
    /\ bind_servers # EmptyDict

\* C29: a tick that has started returns to idle, and when it does it has
\* probed each of the unique monitored addresses found at its start once:
\* as many probes as there are such addresses
C29_TickCompletes ==
    /\ (pc = "loop") ~> (pc = "idle")
    /\ [](TickDone =>
            /\ DOMAIN probed = UniqueServers(bind0, mon0)
            /\ \A a \in DOMAIN probed : probed[a] = 1)

\* a finished tick over two addresses, one of whose probes failed
C29_Witness ==
    /\ TickDone
    /\ Cardinality(DOMAIN probed) = 2
    /\ probe_failed # {} /\ probe_failed # DOMAIN probed
    /\ \A a \in DOMAIN probed : probed[a] = 1

\* C30: the addresses of a tick are those found in the configuration when
\* it started: while it runs, /mcadd, /mcdel and /mcmonitor set add nothing
\* to them and take nothing away, every one of them is probed, no exception
\* ends or leaves the tick, and a tick that starts reads the configuration
\* as it is then
C30_SnapshotPerTick ==
    /\ [](/\ ticks > 0 => tick_set = UniqueServers(bind0, mon0)
          /\ DOMAIN probed = tick_set /\ unique_servers \subseteq tick_set
          /\ ~aborted /\ ~raised
          /\ TickDone => \A a \in tick_set : probed[a] = 1)
    /\ [][pc = "idle" /\ pc' = "loop" =>
            tick_set' = UniqueServers(bind_servers, monitor_servers)]_vars

\* a running tick that still has to probe an address which the configuration
\* no longer monitors, while the configuration monitors one it will not probe
C30_Witness ==
    /\ pc = "loop"
    /\ \E a \in unique_servers : a \notin UniqueServers(bind_servers, monitor_servers)
    /\ \E a \in UniqueServers(bind_servers, monitor_servers) : a \notin tick_set


\* ------------------------------------------- claims on the configuration
\* a step that handles /mcdel, and one that handles /mcadd
DeleteStep == ncmds' # ncmds /\ reply'.cmd = "delete"
AddStep == ncmds' # ncmds /\ reply'.cmd = "add"
\* the addresses flagged for monitoring
Flagged(mon) == {address \in DOMAIN mon : mon[address]}
\* the pairs of the flagged addresses that some binding holds
BoundFlaggedPairs(bind, mon) ==
    {PairOf(bind[gn[1]][gn[2]]) :
        gn \in {x \in Bindings(bind) :
                   /\ bind[x[1]][x[2]] \in Flagged(mon)
                   /\ parse_server_address(bind[x[1]][x[2]]).ok}}

\* C31: /mcdel leaves every monitor flag as it is; a tick probes the pairs
\* of the flagged addresses that a binding holds when it starts and no
\* other, so a flagged address without a binding is not probed, and one
\* that is bound again is probed again with the flag it kept
C31_FlagOutlivesBinding ==
    /\ [][DeleteStep => monitor_servers' = monitor_servers]_vars
    /\ [](ticks > 0 => tick_set = BoundFlaggedPairs(bind0, mon0))
    /\ [](TickDone => \A a \in tick_set : probed[a] = 1)

\* t -> b:8 was deleted and bound again, without a monitor set, and the tick
\* that followed probed b:8
C31_Witness ==
    /\ TickDone
    /\ ncmds = 2 /\ reply.cmd = "add" /\ reply.verdict = "added"
    /\ bind0 = bind_servers
    /\ \E d \in PersistedData : bind_servers = d.bind_servers
    /\ <<<<"b">>, 8>> \in DOMAIN probed /\ probed[<<<<"b">>, 8>>] = 1

\* the binding (g, name) exists and its address is flagged for monitoring
Monitored(g, name) ==
    /\ g \in DOMAIN bind_servers /\ name \in DOMAIN bind_servers[g]
    /\ bind_servers[g][name] \in Flagged(monitor_servers)
\* the replies of /mcstats and /mcchart that come after a history query
ReadingReplies == {"stats", "no history", "image", "no chart"}

\* C32: /mcstats and /mcchart answer from the history only when the name is
\* bound in the group of the caller and its address is flagged; for any
\* other name the step is a refusal that leaves the database connection
\* alone, whatever rows the table holds
C32_ReadsBehindGate ==
    [][\A g \in Groups, name \in GateNames, env \in SimpleEnvs :
          (\/ handle_stats_command(g, name, 960, env)
           \/ handle_chart_command(g, name, 960, env, "ok"))
          => IF Monitored(g, name)
             THEN reply'.verdict \in ReadingReplies \cup {"invalid address"}
             ELSE /\ reply'.verdict \in {"not bound", "not monitored"}
                  /\ reply'.data \in {None, [group |-> g, server_name |-> name]}
                  /\ sqlite_conn' = sqlite_conn]_vars

\* /mcchart s refused after the flag of its address was switched off, with
\* rows of the address in the table
C32_Witness ==
    /\ reply.cmd = "chart" /\ reply.verdict = "not monitored"
    /\ reply.data.server_name = <<"s">>
    /\ ~Monitored(reply.data.group, <<"s">>)
    /\ \E i \in 1..Len(history) : history[i].server_ip = IpA

\* the rows of table h written after time t
RowsSince(h, t) == Cardinality({i \in 1..Len(h) : h[i].timestamp > t})

\* C33: in a purge report the total after is the total before minus the
\* number deleted, also when ticks append rows between the three reads
\* (taken for the reports whose last read the database answers)
C33_ReportAddsUp ==
    [][purge_report(EnvOk) =>
          reply'.data.after = reply'.data.before - reply'.data.deleted]_vars

\* C33 as the code has it: the three figures are read at three moments; the
\* total after is the total before minus the number deleted plus the rows
\* that ticks appended since the first read, and it is 0 when the database
\* refuses the last read
C33_ReportCountsAppended ==
    [][\A env \in SimpleEnvs :
          purge_report(env) =>
             reply'.data.after =
                IF StoreRefuses(sqlite_conn, env) THEN 0
                ELSE reply'.data.before - reply'.data.deleted
                     + RowsSince(history, purge.t0)]_vars

\* a report after a deletion that took rows out, where a tick appended rows
\* between the first read and the deletion, so that the table holds more
\* rows than the total before minus the number deleted
C33_Witness ==
    /\ reply.cmd = "purge" /\ reply.verdict = "report"
    /\ reply.data.deleted > 0
    /\ Len(reply.data.h0) > reply.data.before
    /\ reply.data.after > reply.data.before - reply.data.deleted

\* a step in which /mcmonitor purge answers that there is no data to clean
NoDataStep == ncmds' # ncmds /\ reply'.cmd = "purge" /\ reply'.verdict = "no data"

\* C34: /mcmonitor purge answers "no data to clean" only when the table
\* holds no row: a statistics read that the database refused is not taken
\* for an empty table
C34_NoDataMeansEmpty ==
    [][NoDataStep => Len(history) = 0]_vars

\* C35: /mcmonitor set for a name bound in the group of the caller writes the
\* requested value under the address string of that binding and leaves every
\* other flag and every binding as it was; switching off an address that has
\* no flag entry writes nothing and sends no reply; a name that is not bound
\* in the group changes nothing
C35_SetTouchesOneFlag ==
    [][\A g \in Groups, name \in {<<"s">>, <<"t">>, <<"v">>, <<"w">>},
          is_monitoring \in BOOLEAN :
          handle_monitor_set_command(g, name, is_monitoring) =>
             /\ bind_servers' = bind_servers
             /\ IF g \in DOMAIN bind_servers /\ name \in DOMAIN bind_servers[g]
                THEN LET address == bind_servers[g][name]
                     IN  IF ~is_monitoring /\ address \notin DOMAIN monitor_servers
                         THEN /\ monitor_servers' = monitor_servers
                              /\ reply'.verdict = "silent"
                         ELSE /\ DOMAIN monitor_servers'
                                    = DOMAIN monitor_servers \cup {address}
                              /\ monitor_servers'[address] = is_monitoring
                              /\ \A x \in DOMAIN monitor_servers \ {address} :
                                    monitor_servers'[x] = monitor_servers[x]
                              /\ reply'.verdict
                                    = IF is_monitoring THEN "enabled" ELSE "disabled"
                ELSE /\ monitor_servers' = monitor_servers
                     /\ reply'.verdict = "not bound"]_vars

\* monitoring of a was switched off through its binding in group 1, while
\* the other spelling of the address and the other addresses kept their flag
C35_Witness ==
    /\ reply.cmd = "set" /\ reply.verdict = "disabled"
    /\ AddrA \in DOMAIN monitor_servers /\ ~monitor_servers[AddrA]
    /\ AddrAPort \in Flagged(monitor_servers)
    /\ AddrB \in Flagged(monitor_servers)

\* the bind table as one map from (group, name) to address
BindingMap(bind) == [gn \in Bindings(bind) |-> bind[gn[1]][gn[2]]]

\* C36: /mcadd adds the one binding (group, name) -> address when it accepts
\* and never changes a binding that exists; /mcdel takes out the named
\* binding of its group and no other; both leave the bindings of the other
\* groups, every monitor flag and the history table as they were
C36_AddDeleteFrame ==
    [][ /\ \A g \in Groups, name \in {<<"t">>, <<"w">>}, address \in {AddrA, AddrB} :
             handle_add_command(g, name, address) =>
                /\ monitor_servers' = monitor_servers /\ history' = history
                /\ IF reply'.verdict = "added"
                   THEN /\ <<g, name>> \notin Bindings(bind_servers)
                        /\ BindingMap(bind_servers')
                              = (<<g, name>> :> address) @@ BindingMap(bind_servers)
                   ELSE BindingMap(bind_servers') = BindingMap(bind_servers)
                /\ <<g, name>> \in Bindings(bind_servers)
                      => bind_servers'[g][name] = bind_servers[g][name]
        /\ \A g \in Groups, name \in {<<"s">>, <<"t">>} :
             handle_delete_command(g, name) =>
                /\ monitor_servers' = monitor_servers /\ history' = history
                /\ Bindings(bind_servers') = Bindings(bind_servers) \ {<<g, name>>}
                /\ \A gn \in Bindings(bind_servers') :
                      bind_servers'[gn[1]][gn[2]] = bind_servers[gn[1]][gn[2]]
                /\ reply'.verdict = "deleted" <=> <<g, name>> \in Bindings(bind_servers)
      ]_vars

\* s was deleted from group 1 and w added to group 2, with the other
\* bindings of both groups and the flags as they were loaded
C36_Witness ==
    /\ ncmds = 2 /\ reply.cmd = "add" /\ reply.verdict = "added"
    /\ Bindings(bind_servers) =
          {<<1, <<"v">>>>, <<2, <<"s">>>>, <<2, <<"t">>>>, <<2, <<"u">>>>, <<2, <<"w">>>>}
    /\ bind_servers[2][<<"t">>] = AddrB /\ bind_servers[1][<<"v">>] = AddrC
    /\ Flagged(monitor_servers) = {AddrA, AddrAPort, AddrB, AddrBad}

=============================================================================
